---- MODULE Spec2Model ----
(***************************************************************************)
(* Verification model of the SportsPredictionModel component              *)
(* (CollinKrum/Stats): rolling-form feature construction, training        *)
(* gating and persistence, prediction input validation, the backtest      *)
(* replay and the guarded asynchronous loadSaved.                         *)
(*                                                                         *)
(* Number representation.  JavaScript doubles are modelled in fixed       *)
(* point: probabilities in thousandths (PScale), rolling-form rates in    *)
(* sixtieths (FormScale, exact for every window length 1..5), money in    *)
(* elevenths of a dollar (MoneyScale, exact for the default -110 price    *)
(* and the prices used below).  The non-numeric JavaScript values '',     *)
(* NaN, null and undefined are the sentinels Empty, NaNv, Null and Undef. *)
(***************************************************************************)
EXTENDS Integers, Sequences, FiniteSets, TLC

VARIABLES
    \* ---- React state of the component (useState hooks) ----
    selectedSport, trainingData, modelTrained, modelParams, trainingStats,
    featureImportance, prediction, evResult, matchupInputs, actualLines,
    isTraining, isBacktesting, backtestResult,
    \* ---- refs, stores and the outside world ----
    loadVersionRef, serverTraining, serverModel, localTraining, localModel,
    alerts,
    \* ---- locals of the operation in progress ----
    loads, train, bt, form, upload, calc

compVars  == <<selectedSport, trainingData, modelTrained, modelParams,
               trainingStats, featureImportance, prediction, evResult,
               matchupInputs, actualLines, isTraining, isBacktesting,
               backtestResult>>
storeVars == <<serverTraining, serverModel, localTraining, localModel>>
vars      == <<compVars, loadVersionRef, storeVars, alerts, loads, train, bt, form,
               upload, calc>>

----------------------------------------------------------------------------
(* Sentinels and scales *)

Empty == 9999      \* '' : an empty CSV cell or an empty input box
NaNv  == 9998      \* NaN
Null  == 9997      \* null
Undef == 9996      \* undefined : a property the object does not carry
Text  == 9995      \* a string that is not a number, such as 'abc'

\* null in a state variable or store slot that otherwise holds an object
None == [none |-> TRUE]

PScale     == 1000
FormScale  == 60
MoneyScale == 11

IsNum(v) == v \notin {Empty, NaNv, Null, Undef, Text}

\* Number(v) and parseFloat(v) on the values above
NumberOf(v) ==
    IF v \in {Null, Empty} THEN 0 ELSE IF v \in {Undef, Text} THEN NaNv ELSE v
ParseFloat(v) == IF IsNum(v) THEN v ELSE NaNv

Abs(x) == IF x < 0 THEN -x ELSE x
Max(a, b) == IF a >= b THEN a ELSE b
Min(a, b) == IF a <= b THEN a ELSE b

RECURSIVE SumSeq(_)
SumSeq(s) == IF s = <<>> THEN 0 ELSE Head(s) + SumSeq(Tail(s))

----------------------------------------------------------------------------
(* Sport registry *)

TeamFeatures == <<"team1_moneyline", "team2_moneyline", "team1_last5", "team2_last5">>
TennisFeatures == <<"player1_ranking", "player2_ranking">>

sports ==
    [nfl    |-> [features |-> TeamFeatures, isTeamSeasonSport |-> TRUE,
                 supportsSpread |-> TRUE, supportsTotal |-> TRUE],
     tennis |-> [features |-> TennisFeatures, isTeamSeasonSport |-> FALSE,
                 supportsSpread |-> FALSE, supportsTotal |-> FALSE]]

Sports == {"nfl", "tennis"}

FeatureNames == UNION {{sports[s].features[j] : j \in 1..Len(sports[s].features)} : s \in Sports}

----------------------------------------------------------------------------
(* Rows.  One record shape for every row; a column the CSV did not carry  *)
(* is Empty.                                                              *)

Row(t1, t2, ml1, ml2, sp, tot, hs, as, w, d) ==
    [team1 |-> t1, team2 |-> t2, team1_moneyline |-> ml1, team2_moneyline |-> ml2,
     spread |-> sp, total |-> tot, home_final_score |-> hs, away_final_score |-> as,
     winner |-> w, date |-> d, team1_last5 |-> Empty, team2_last5 |-> Empty]

\* row.home_final_score || row.HomeScore : a 0 score is falsy and falls
\* through to the alternate column, which these rows do not carry.
ScoreOf(v) == IF v \in {0, Empty, Null, NaNv} THEN Undef ELSE v

checkSpreadWinner(h, a, s) ==
    IF ~IsNum(h) \/ ~IsNum(a) \/ ~IsNum(s) THEN "none"
    ELSE IF h + s > a THEN "home"
    ELSE IF h + s < a THEN "away"
    ELSE "push"

determineWinnerFromScores(h, a, s) ==
    IF ~IsNum(h) \/ ~IsNum(a) THEN Null
    ELSE IF IsNum(s)
         THEN LET result == checkSpreadWinner(h, a, s)
              IN  IF result = "home" THEN 1 ELSE IF result = "away" THEN 0 ELSE Null
         ELSE IF h > a THEN 1 ELSE 0

\* winner as addLast5WinColumns resolves it (before Number())
ResolveWinner(row) ==
    IF row.winner \in {Undef, Null, Empty}
    THEN determineWinnerFromScores(ScoreOf(row.home_final_score),
                                   ScoreOf(row.away_final_score), row.spread)
    ELSE row.winner

\* slice(-5)
FormWindow == 5
Last5(h) == IF Len(h) <= FormWindow THEN h ELSE SubSeq(h, Len(h) - FormWindow + 1, Len(h))

\* win rate of a history, in sixtieths; 0.5 when the history is empty
Rate(h) ==
    LET l5 == Last5(h)
    IN  IF Len(l5) > 0 THEN (SumSeq(l5) * FormScale) \div Len(l5) ELSE FormScale \div 2

HistOf(history, t) == IF t \in DOMAIN history THEN history[t] ELSE <<>>

\* One iteration of rows.map in addLast5WinColumns: the pair
\* <<augmented row, updated history>>.
FormStepLookahead(history, row) ==
    LET winner == ResolveWinner(row)
        t1Result == IF NumberOf(winner) = 1 THEN 1 ELSE 0
        t2Result == IF NumberOf(winner) = 0 THEN 1 ELSE 0
        t1Hist == Append(HistOf(history, row.team1), t1Result)
        t2Hist == Append(HistOf(history, row.team2), t2Result)
        h1 == [t \in DOMAIN history \cup {row.team1} |->
                 IF t = row.team1 THEN t1Hist ELSE history[t]]
        h2 == [t \in DOMAIN h1 \cup {row.team2} |->
                 IF t = row.team2 THEN t2Hist ELSE h1[t]]
    IN  <<[row EXCEPT !.team1_last5 = Rate(t1Hist), !.team2_last5 = Rate(t2Hist),
                      !.winner = NumberOf(winner)], h2>>

FormStep(history, row) ==
    LET t1Hist == HistOf(history, row.team1)
        t2Hist == HistOf(history, row.team2)
        t1Rate == Rate(t1Hist)
        t2Rate == Rate(t2Hist)
        winner == ResolveWinner(row)
        t1Result == IF NumberOf(winner) = 1 THEN 1 ELSE 0
        t2Result == IF NumberOf(winner) = 0 THEN 1 ELSE 0
        h1 == [t \in DOMAIN history \cup {row.team1} |->
                 IF t = row.team1 THEN Append(t1Hist, t1Result) ELSE history[t]]
        h2 == [t \in DOMAIN h1 \cup {row.team2} |->
                 IF t = row.team2 THEN Append(t2Hist, t2Result) ELSE h1[t]]
    IN  <<[row EXCEPT !.team1_last5 = t1Rate, !.team2_last5 = t2Rate,
                      !.winner = NumberOf(winner)], h2>>

RECURSIVE FormFold(_, _, _)
FormFold(rows, history, acc) ==
    IF rows = <<>> THEN acc
    ELSE LET r == FormStep(history, Head(rows))
         IN  FormFold(Tail(rows), r[2], Append(acc, r[1]))

addLast5WinColumns(rows) == FormFold(rows, <<>>, <<>>)

\* the history object of addLast5WinColumns after the last row
RECURSIVE FormHistory(_, _)
FormHistory(rows, history) ==
    IF rows = <<>> THEN history
    ELSE FormHistory(Tail(rows), FormStep(history, Head(rows))[2])

\* One iteration of rows.map in the addLast5WinColumns of the component
\* kept in server/server.js: the columns are win counts, and the winner is
\* the row's own column.
FormStepCounts(history, row) ==
    LET t1Hist == HistOf(history, row.team1)
        t2Hist == HistOf(history, row.team2)
        t1Last5Wins == SumSeq(Last5(t1Hist))
        t2Last5Wins == SumSeq(Last5(t2Hist))
        winner == NumberOf(row.winner)
        t1Result == IF winner = 1 THEN 1 ELSE 0
        t2Result == IF winner = 0 THEN 1 ELSE 0
        h1 == [t \in DOMAIN history \cup {row.team1} |->
                 IF t = row.team1 THEN Append(t1Hist, t1Result) ELSE history[t]]
        h2 == [t \in DOMAIN h1 \cup {row.team2} |->
                 IF t = row.team2 THEN Append(t2Hist, t2Result) ELSE h1[t]]
    IN  <<[row EXCEPT !.team1_last5 = t1Last5Wins * FormScale,
                      !.team2_last5 = t2Last5Wins * FormScale], h2>>

RECURSIVE FormFoldCounts(_, _, _)
FormFoldCounts(rows, history, acc) ==
    IF rows = <<>> THEN acc
    ELSE LET r == FormStepCounts(history, Head(rows))
         IN  FormFoldCounts(Tail(rows), r[2], Append(acc, r[1]))

addLast5WinCounts(rows) == FormFoldCounts(rows, <<>>, <<>>)

----------------------------------------------------------------------------
(* Odds conversion, in thousandths *)

\* n/d rounded to the nearest integer, halves away from zero
\* (Math.round on the magnitudes used here, and Number.toFixed)
RoundDiv(n, d) ==
    IF n >= 0 THEN (2 * n + d) \div (2 * d) ELSE -((2 * (-n) + d) \div (2 * d))

\* Math.round(n / d) for d > 0: halves go up
MathRound(n, d) == (2 * n + d) \div (2 * d)

moneylineToFairProb(ml) ==
    LET num == NumberOf(ml)
    IN  IF ~IsNum(num) THEN PScale \div 2
        ELSE IF num > 0 THEN (100 * PScale) \div (num + 100)
        ELSE (Abs(num) * PScale) \div (Abs(num) + 100)

removeVig(p1, p2) ==
    LET total == p1 + p2
    IN  IF total <= PScale THEN [p1 |-> p1, p2 |-> p2]
        ELSE [p1 |-> (p1 * PScale) \div total, p2 |-> (p2 * PScale) \div total]

\* sigmoid(z), z in thousandths, tabulated at multiples of 0.5 and
\* saturating beyond +-4
SigmoidTable == <<500, 622, 731, 818, 881, 924, 953, 971, 982>>
sigmoid(z) ==
    LET k == Min(RoundDiv(Abs(z), PScale \div 2), Len(SigmoidTable) - 1)
        v == SigmoidTable[k + 1]
    IN  IF z >= 0 THEN v ELSE PScale - v

\* (v - means[j]) / stds[j], then bias + sum of w * xNorm, then sigmoid
ModelProb(m, raw) ==
    LET xNorm == [j \in 1..Len(raw) |-> ((raw[j] - m.means[j]) * PScale) \div m.stds[j]]
        terms == [j \in 1..Len(raw) |-> (m.weights[j] * xNorm[j]) \div PScale]
    IN  sigmoid(m.bias + SumSeq(terms))

----------------------------------------------------------------------------
(* Expected value.  A payout multiplier is the fraction pn/pd; an EV per   *)
(* $100 is the fraction n/d; bestEV is reported through toFixed(1), here   *)
(* an integer number of tenths.                                            *)

PayoutNum(odds) == Abs(odds) + 100
PayoutDen(odds) == IF odds > 0 THEN 100 ELSE Abs(odds)

\* (prob * payout - (1 - prob)) * 100 as numerator over denominator
EvNum(prob, odds) == prob * PayoutNum(odds) - (PScale - prob) * PayoutDen(odds)
EvDen(odds) == (PScale \div 100) * PayoutDen(odds)

EvGreater(p1, o1, p2, o2) == EvNum(p1, o1) * EvDen(o2) > EvNum(p2, o2) * EvDen(o1)

\* ev.toFixed(1), in tenths
EvTenths(prob, odds) == RoundDiv(10 * EvNum(prob, odds), EvDen(odds))

EvResult(p1, o1, p2, o2, market) ==
    LET first == EvGreater(p1, o1, p2, o2)
    IN  [ev1 |-> EvTenths(p1, o1), ev2 |-> EvTenths(p2, o2),
         bestEV |-> IF EvNum(p1, o1) * EvDen(o2) >= EvNum(p2, o2) * EvDen(o1)
                    THEN EvTenths(p1, o1) ELSE EvTenths(p2, o2),
         side |-> IF first THEN 1 ELSE 2,
         marketType |-> market]

calculateEV(modelProb, ml1, ml2) ==
    EvResult(modelProb, ml1, PScale - modelProb, ml2, "moneyline")

Clamp(lo, hi, v) == Max(lo, Min(hi, v))

\* team1CoverProb of calculateSpreadEV
SpreadCoverProb(team1WinProb, spread) ==
    LET spreadMagnitude == Abs(spread)
        raw == IF spread < 0
               THEN (team1WinProb * (850 - spreadMagnitude * 20)) \div PScale
               ELSE team1WinProb + ((PScale - team1WinProb) * spreadMagnitude * 50) \div PScale
    IN  Clamp(100, 900, raw)

calculateSpreadEV(team1WinProb, spread, odds1, odds2) ==
    LET team1CoverProb == SpreadCoverProb(team1WinProb, spread)
    IN  EvResult(team1CoverProb, odds1, PScale - team1CoverProb, odds2, "spread")

\* overProb of calculateTotalEV
TotalOverProb(team1WinProb) ==
    LET scoringFactor == 450 + team1WinProb \div 10
    IN  Clamp(300, 700, scoringFactor)

calculateTotalEV(team1WinProb, total, overOdds, underOdds) ==
    LET overProb == TotalOverProb(team1WinProb)
    IN  EvResult(overProb, overOdds, PScale - overProb, underOdds, "total")

----------------------------------------------------------------------------
(* runBacktest: helpers of one replay iteration *)

StartingBalance == 10000
Stake == 100
WarmUp == 20
MinBacktestRows == 50
EvThreshold == 2
DefaultOdds == -110

\* the index the for loop starts at
LoopStartEarly == WarmUp - 1
LoopStart == WarmUp

\* a column of a row by name; undefined when the row does not carry it
RowField(row, f) == IF f \in DOMAIN row THEN row[f] ELSE Undef

\* a || b on the values used here
OrElse(a, b) == IF IsNum(a) /\ a # 0 THEN a ELSE b

\* winnings of a won $100 stake, in elevenths of a dollar:
\* stake * (odds / 100) or stake * (100 / |odds|)
WinUnits(odds) ==
    IF odds > 0 THEN odds * MoneyScale ELSE (Stake * 100 * MoneyScale) \div Abs(odds)

\* chronological key of the sort comparator
getDate(row) == IF IsNum(row.date) /\ row.date # 0 THEN row.date ELSE 0

\* insertion of a row behind every row whose key is not larger
RECURSIVE InsertByDate(_, _)
InsertByDate(sorted, row) ==
    IF sorted = <<>> THEN <<row>>
    ELSE IF getDate(sorted[Len(sorted)]) <= getDate(row) THEN Append(sorted, row)
    ELSE Append(InsertByDate(SubSeq(sorted, 1, Len(sorted) - 1), row), sorted[Len(sorted)])

RECURSIVE SortFold(_, _)
SortFold(rows, acc) ==
    IF rows = <<>> THEN acc ELSE SortFold(Tail(rows), InsertByDate(acc, Head(rows)))

\* [...trainingData].sort(by getDate): a stable ascending sort
SortByDate(rows) == SortFold(rows, <<>>)

\* the feature vector of a row and whether every feature was usable
BacktestFeatures(current, features) ==
    LET ml1 == ParseFloat(OrElse(current.team1_moneyline, Undef))
        ml2 == ParseFloat(OrElse(current.team2_moneyline, Undef))
        fair == removeVig(moneylineToFairProb(ml1), moneylineToFairProb(ml2))
        IsMl(f) == f \in {"team1_moneyline", "team2_moneyline"}
        val(f) == ParseFloat(RowField(current, f))
    IN  [valid |-> \A j \in 1..Len(features) :
                      IF IsMl(features[j]) THEN IsNum(ml1) /\ IsNum(ml2)
                      ELSE IsNum(val(features[j])),
         raw |-> [j \in 1..Len(features) |->
                      IF features[j] = "team1_moneyline" THEN fair.p1
                      ELSE IF features[j] = "team2_moneyline" THEN fair.p2
                      ELSE IF IsNum(val(features[j]))
                           THEN (val(features[j]) * PScale) \div FormScale
                           ELSE 0]]

NoBets == [bets |-> 0, correct |-> 0, profit |-> 0, evSum |-> 0]

\* MONEYLINE BET
MoneylineBet(st, current, modelProb, actualWinner) ==
    LET ml1 == ParseFloat(OrElse(current.team1_moneyline, Undef))
        ml2 == ParseFloat(OrElse(current.team2_moneyline, Undef))
        ev  == calculateEV(modelProb, ml1, ml2)
        odds == IF ev.side = 1 THEN ml1 ELSE ml2
        won == (ev.side = 1 /\ actualWinner = 1) \/ (ev.side = 2 /\ actualWinner = 0)
        payout == IF won THEN WinUnits(odds) ELSE -(Stake * MoneyScale)
    IN  IF IsNum(ml1) /\ IsNum(ml2) /\ ml1 # 0 /\ ml2 # 0 /\ ev.bestEV > EvThreshold * 10
        THEN [st EXCEPT !.bets.moneyline.bets = @ + 1,
                        !.bets.moneyline.correct = IF won THEN @ + 1 ELSE @,
                        !.bets.moneyline.profit = @ + payout,
                        !.bets.moneyline.evSum = @ + ev.bestEV,
                        !.balance = @ + payout]
        ELSE st

\* SPREAD BET
SpreadBetLeak(st, current, modelProb, actualWinner, sport) ==
    LET spread == ParseFloat(current.spread)
        odds1 == OrElse(RowField(current, "spread_odds1"), DefaultOdds)
        odds2 == OrElse(RowField(current, "spread_odds2"), DefaultOdds)
        ev == calculateSpreadEV(modelProb, spread, odds1, odds2)
        won == IF ev.side = 1 THEN actualWinner = 1 ELSE actualWinner = 0
        payout == IF won THEN WinUnits(odds1) - Stake * MoneyScale
                  ELSE -(Stake * MoneyScale)
    IN  IF sports[sport].supportsSpread /\ IsNum(current.spread) /\ current.spread # 0
           /\ ev.bestEV > EvThreshold * 10
        THEN [st EXCEPT !.bets.spread.bets = @ + 1,
                        !.bets.spread.correct = IF won THEN @ + 1 ELSE @,
                        !.balance = @ + payout]
        ELSE st

SpreadBet(st, current, modelProb, actualWinner, sport) ==
    LET spread == ParseFloat(current.spread)
        odds1 == OrElse(RowField(current, "spread_odds1"), DefaultOdds)
        odds2 == OrElse(RowField(current, "spread_odds2"), DefaultOdds)
        ev == calculateSpreadEV(modelProb, spread, odds1, odds2)
        won == IF ev.side = 1 THEN actualWinner = 1 ELSE actualWinner = 0
        payout == IF won THEN WinUnits(odds1) - Stake * MoneyScale
                  ELSE -(Stake * MoneyScale)
    IN  IF sports[sport].supportsSpread /\ IsNum(current.spread) /\ current.spread # 0
           /\ ev.bestEV > EvThreshold * 10
        THEN [st EXCEPT !.bets.spread.bets = @ + 1,
                        !.bets.spread.correct = IF won THEN @ + 1 ELSE @,
                        !.bets.spread.profit = @ + payout,
                        !.balance = @ + payout]
        ELSE st

\* TOTAL BET
TotalBet(st, current, modelProb, sport) ==
    LET total == ParseFloat(current.total)
        overOdds == OrElse(RowField(current, "over_odds"), DefaultOdds)
        underOdds == OrElse(RowField(current, "under_odds"), DefaultOdds)
        ev == calculateTotalEV(modelProb, total, overOdds, underOdds)
        hs == ParseFloat(OrElse(current.home_final_score, Undef))
        as == ParseFloat(OrElse(current.away_final_score, Undef))
        actualTotal == (IF IsNum(hs) THEN hs ELSE 0) + (IF IsNum(as) THEN as ELSE 0)
        won == IF ev.side = 1 THEN actualTotal > total ELSE actualTotal < total
        payout == IF won THEN WinUnits(overOdds) - Stake * MoneyScale
                  ELSE -(Stake * MoneyScale)
    IN  IF sports[sport].supportsTotal /\ IsNum(current.total) /\ current.total # 0
           /\ ev.bestEV > EvThreshold * 10
        THEN [st EXCEPT !.bets.total.bets = @ + 1,
                        !.bets.total.correct = IF won THEN @ + 1 ELSE @,
                        !.bets.total.profit = @ + payout,
                        !.balance = @ + payout]
        ELSE st

\* whether the loop body skips the row before any feature is read
SkipsOnWinner(current) == current.winner \in {Null, Undef, Empty}

\* the loop body for sorted[i], given the replay state st
BacktestIteration(st, m, sport) ==
    LET current == st.sorted[st.i + 1]
        fv == BacktestFeatures(current, m.features)
        modelProb == ModelProb(m, fv.raw)
        actualWinner == NumberOf(current.winner)
        s1 == MoneylineBet(st, current, modelProb, actualWinner)
        s2 == SpreadBet(s1, current, modelProb, actualWinner, sport)
        s3 == TotalBet(s2, current, modelProb, sport)
    IN  IF SkipsOnWinner(current) \/ ~fv.valid
        THEN [st EXCEPT !.i = @ + 1]
        ELSE [s3 EXCEPT !.i = @ + 1,
                        !.history = Append(@, [game |-> st.i, balance |-> s3.balance])]

BacktestPreconditionNoCount(trained, params, data) ==
    trained /\ params # None

\* the precondition at the top of runBacktest
BacktestPrecondition(trained, params, data) ==
    trained /\ params # None /\ Len(data) >= MinBacktestRows

Markets == {"moneyline", "spread", "total"}
TotalOf(bets, field) ==
    bets.moneyline[field] + bets.spread[field] + bets.total[field]

BacktestSummary(st) ==
    LET totalBets == TotalOf(st.bets, "bets")
        totalProfit == TotalOf(st.bets, "profit")
    IN  [bets |-> st.bets,
         totalBets |-> totalBets,
         totalProfit |-> totalProfit,
         roi |-> IF totalBets > 0
                 THEN RoundDiv(totalProfit * 100, MoneyScale * totalBets) ELSE 0,
         finalBalance |-> st.balance,
         startingBalance |-> StartingBalance * MoneyScale,
         history |-> st.history,
         gamesTested |-> Len(st.sorted) - WarmUp]

----------------------------------------------------------------------------
(* Values of the variables while the operation they belong to is not      *)
(* running; each specification below starts the others from these.        *)

NoLoads  == <<>>
NoTrain  == [pc |-> "idle"]
NoBt     == [pc |-> "idle"]
NoForm   == [pc |-> "off"]
NoCalc   == [pc |-> "off"]
NoUpload == [pc |-> "idle", newRows |-> <<>>]
\* matchupInputs = {} : no feature has a value yet
NoInputs == [f \in FeatureNames |-> Undef]
\* the eight market-line fields, each ''
LineFields == {"ML1", "ML2", "Spread", "SpreadOdds1", "SpreadOdds2",
               "Total", "OverOdds", "UnderOdds"}
NoLines  == [f \in LineFields |-> Empty]
NoStore  == [s \in Sports |-> None]

CompInit ==
    /\ selectedSport = "nfl"
    /\ trainingData = <<>>
    /\ modelTrained = FALSE
    /\ modelParams = None
    /\ trainingStats = None
    /\ featureImportance = None
    /\ prediction = None
    /\ evResult = None
    /\ matchupInputs = NoInputs
    /\ actualLines = NoLines
    /\ isTraining = FALSE
    /\ isBacktesting = FALSE
    /\ backtestResult = None

StoreInit ==
    /\ serverTraining = NoStore
    /\ serverModel = NoStore
    /\ localTraining = NoStore
    /\ localModel = NoStore

----------------------------------------------------------------------------
(* SpecForm: addLast5WinColumns applied to a row list and to a copy of it *)
(* whose outcome columns (winner, scores, spread) were altered in one row.*)

MaxFormRows == 3

FormPairs == {<<"A", "B">>, <<"B", "A">>, <<"A", "C">>}

\* outcome columns <<winner, home score, away score, spread>>
FormOutcomes == {<<1, Empty, Empty, Empty>>,      \* explicit label 1
                 <<0, Empty, Empty, Empty>>,      \* explicit label 0
                 <<Empty, 3, 1, Empty>>,          \* derived: home won
                 <<Empty, 3, 1, -2>>}             \* derived: spread push

FormRow(p, o) == Row(p[1], p[2], -150, 130, o[4], Empty, o[2], o[3], o[1], 1)

FormRows == {FormRow(p, o) : p \in FormPairs, o \in FormOutcomes}

FormInputs == UNION {[1..n -> FormRows] : n \in 1..MaxFormRows}

\* a season of two teams, long enough for the window of five to slide
FormRunLen == 7

FormRunRows == {FormRow(<<"A", "B">>, <<1, Empty, Empty, Empty>>),
                FormRow(<<"A", "B">>, <<0, Empty, Empty, Empty>>),
                FormRow(<<"B", "A">>, <<1, Empty, Empty, Empty>>)}

FormRuns == [1..FormRunLen -> FormRunRows]

WithOutcome(row, o) ==
    [row EXCEPT !.winner = o[1], !.home_final_score = o[2],
                !.away_final_score = o[3], !.spread = o[4]]

FormInit ==
    /\ CompInit /\ StoreInit
    /\ loadVersionRef = 0 /\ alerts = {}
    /\ loads = NoLoads /\ train = NoTrain /\ bt = NoBt /\ upload = NoUpload
    /\ calc = NoCalc
    /\ \E rows \in FormInputs \cup FormRuns :
         form = [pc |-> "input", rows |-> rows, alt |-> rows,
                 out |-> <<>>, altOut |-> <<>>, counts |-> <<>>,
                 history |-> <<>>]

\* alter the outcome columns of one row of the copy
FormPerturb ==
    /\ form.pc = "input"
    /\ form.alt = form.rows
    /\ \E i \in 1..Len(form.rows), o \in FormOutcomes :
         /\ WithOutcome(form.rows[i], o) # form.rows[i]
         /\ form' = [form EXCEPT !.alt[i] = WithOutcome(form.rows[i], o)]
    /\ UNCHANGED <<compVars, loadVersionRef, storeVars, alerts, loads, train, bt,
                   upload, calc>>

FormApply ==
    /\ form.pc = "input"
    /\ form' = [form EXCEPT !.pc = "done",
                            !.out = addLast5WinColumns(form.rows),
                            !.altOut = addLast5WinColumns(form.alt),
                            !.counts = addLast5WinCounts(form.rows),
                            !.history = FormHistory(form.rows, <<>>)]
    /\ UNCHANGED <<compVars, loadVersionRef, storeVars, alerts, loads, train, bt,
                   upload, calc>>

FormNext == FormPerturb \/ FormApply

SpecForm == FormInit /\ [][FormNext]_vars

\* first row in which the two inputs differ (Len+1 when they are equal)
FirstDiff(a, b) ==
    IF \E i \in 1..Len(a) : a[i] # b[i]
    THEN CHOOSE i \in 1..Len(a) : a[i] # b[i] /\ \A j \in 1..(i-1) : a[j] = b[j]
    ELSE Len(a) + 1

\* C1: row i's team1_last5 and team2_last5 depend on the outcomes of rows
\* 0..i-1 only: altering the winner label, scores or spread of row i itself
\* or of a later row leaves row i's two form values unchanged.
C1_NoLookahead ==
    form.pc = "done" =>
        \A i \in 1..Len(form.rows) :
            i <= FirstDiff(form.rows, form.alt) =>
                /\ form.out[i].team1_last5 = form.altOut[i].team1_last5
                /\ form.out[i].team2_last5 = form.altOut[i].team2_last5

\* an altered row that has earlier history, with a result that changed
C1_Witness ==
    /\ form.pc = "done"
    /\ \E i \in 2..Len(form.rows) :
         /\ i = FirstDiff(form.rows, form.alt)
         /\ form.out[i].winner # form.altOut[i].winner
         /\ form.out[i].team1_last5 # FormScale \div 2

\* the earlier rows in which a competitor appeared
Appearances(rows, i, c) ==
    {j \in 1..(i - 1) : rows[j].team1 = c \/ rows[j].team2 = c}

\* the last min(5, k) of them
Recent(rows, i, c) ==
    LET prior == Appearances(rows, i, c)
    IN  {j \in prior : Cardinality({x \in prior : x > j}) < FormWindow}

\* the competitor's recorded outcome in a row whose winner is w
Won(row, c, w) == (row.team1 = c /\ w = 1) \/ (row.team2 = c /\ w = 0)

\* wins among the last min(5, k) recorded outcomes over min(5, k), 0.5
\* when k = 0, in sixtieths; W gives the winner a row is recorded with
WinRate(rows, i, c, W(_)) ==
    LET recent == Recent(rows, i, c)
        wins == Cardinality({j \in recent : Won(rows[j], c, W(rows[j]))})
    IN  IF recent = {} THEN FormScale \div 2
        ELSE (wins * FormScale) \div Cardinality(recent)

FormIsWinRate(rows, out, W(_)) ==
    \A i \in 1..Len(rows) :
        /\ out[i].team1_last5 = WinRate(rows, i, rows[i].team1, W)
        /\ out[i].team2_last5 = WinRate(rows, i, rows[i].team2, W)
        /\ 0 <= out[i].team1_last5 /\ out[i].team1_last5 <= FormScale
        /\ 0 <= out[i].team2_last5 /\ out[i].team2_last5 <= FormScale

ResolvedWinner(row) == NumberOf(ResolveWinner(row))
ColumnWinner(row) == NumberOf(row.winner)

\* the addLast5WinColumns of the component (part_001, part_002) alone
FormIsWinRateInComponent ==
    form.pc = "done" => FormIsWinRate(form.rows, form.out, ResolvedWinner)

\* C19: in addLast5WinColumns each side's form value is the number of
\* wins among the competitor's last min(5, k) recorded outcomes divided by
\* min(5, k), k being the number of earlier rows in which the competitor
\* appeared, and 0.5 when k = 0; it lies in [0, 1].  Stated of both copies
\* of the function.
C19_FormIsWinRate ==
    form.pc = "done"
    => /\ FormIsWinRate(form.rows, form.out, ResolvedWinner)
       /\ FormIsWinRate(form.rows, form.counts, ColumnWinner)

\* the entry row i appended to the history of competitor c
Appended(rows, history, i, c) ==
    history[c][Cardinality(Appearances(rows, i + 1, c))]

\* C25: for every row processed by addLast5WinColumns, a 1 (win) is
\* appended to a competitor's history only if that competitor is the row's
\* winner by explicit label or by derivation from scores; a row with no
\* determinable winner (missing scores or a spread push) appends a win to
\* neither competitor's history.
C25_WinOnlyForWinner ==
    form.pc = "done"
    => \A i \in 1..Len(form.rows) :
         LET row == form.rows[i]
             winner == ResolveWinner(row)
             t1Result == Appended(form.rows, form.history, i, row.team1)
             t2Result == Appended(form.rows, form.history, i, row.team2)
         IN  /\ t1Result = 1 => winner = 1
             /\ t2Result = 1 => winner = 0
             /\ winner = Null => (t1Result = 0 /\ t2Result = 0)

\* the same of the rows whose winner can be determined
WinOnlyForWinnerWhenDetermined ==
    form.pc = "done"
    => \A i \in 1..Len(form.rows) :
         LET row == form.rows[i]
             winner == ResolveWinner(row)
             t1Result == Appended(form.rows, form.history, i, row.team1)
             t2Result == Appended(form.rows, form.history, i, row.team2)
         IN  winner # Null
             => /\ t1Result = 1 <=> winner = 1
                /\ t2Result = 1 <=> winner = 0

----------------------------------------------------------------------------
(* SpecBacktest: runBacktest over uploaded or reloaded data sets, with a  *)
(* trained model, a stored model of an older shape, or no model.          *)

MaxBtTail == 2

\* stored model parameters; an older stored model carries no feature list
TrainedA == [weights |-> <<2000, -2000, 500, -500>>, bias |-> 0,
             means |-> <<500, 500, 500, 500>>, stds |-> <<150, 150, 300, 300>>,
             features |-> TeamFeatures]
TrainedB == [weights |-> <<-2000, 2000, 0, 0>>, bias |-> -200,
             means |-> <<500, 500, 500, 500>>, stds |-> <<150, 150, 300, 300>>,
             features |-> TeamFeatures]
LegacyModel == [weights |-> TrainedA.weights, bias |-> TrainedA.bias,
                means |-> TrainedA.means, stds |-> TrainedA.stds]

BtModels == {TrainedA, TrainedB, LegacyModel, None}

\* the bulk of a data set: A and B alternate as home side, home wins
Filler(i) ==
    IF i % 2 = 1 THEN Row("A", "B", -200, 170, Empty, Empty, Empty, Empty, 1, i)
    ELSE Row("B", "A", 150, -200, Empty, Empty, Empty, Empty, 1, i)

\* a row of a file that carries the price columns of both line markets
PriceCols == {"spread_odds1", "spread_odds2", "over_odds", "under_odds"}
Priced(row) ==
    [f \in DOMAIN row \cup PriceCols |-> IF f \in PriceCols THEN DefaultOdds ELSE row[f]]

\* rows at the end of a data set, as parsed from the CSV
BtTailRows(d) ==
    { Row("A", "B", -200, 170, -3, 40, 24, 21, Empty, d),   \* spread push, no label
      Row("A", "B", -200, 170, -3, 40, 24, 21, 1, d),       \* spread push, labelled
      Row("A", "B", -200, 170, -3, 40, 27, 20, Empty, d),   \* home covers
      Row("B", "A", 150, -200, 3, 40, 10, 20, Empty, d),    \* away covers
      Row("A", "B", -110, -110, Empty, Empty, Empty, Empty, 0, d),
      Row("A", "B", -200, Empty, -3, 40, 27, 20, 1, d),     \* a moneyline missing
      Row("A", "B", -200, 170, Empty, Empty, Empty, Empty, NaNv, d),   \* label not a number
      Priced(Row("A", "B", -200, 170, 0, 40, 27, 20, 1, d)) }  \* pick'em, prices given

BtRaw(n) ==
    { [i \in 1..n |-> IF i <= n - MaxBtTail THEN Filler(i) ELSE tail[i - (n - MaxBtTail)]] :
        tail \in { t \in [1..MaxBtTail -> UNION {BtTailRows(d) : d \in 1..n}] :
                     \A k \in 1..MaxBtTail : t[k].date = n - MaxBtTail + k } }

\* JSON.stringify / JSON.parse of the rows: NaN is stored as null
TextCols == {"team1", "team2"}
JsonRoundTrip(rows) ==
    [i \in 1..Len(rows) |->
        [f \in DOMAIN rows[i] |->
            IF f \notin TextCols /\ rows[i][f] = NaNv THEN Null ELSE rows[i][f]]]

BtSizes == {MinBacktestRows - 1, MinBacktestRows}

\* the same file with its last two lines exchanged
SwapLast(rows) ==
    [i \in 1..Len(rows) |->
        IF i = Len(rows) - 1 THEN rows[Len(rows)]
        ELSE IF i = Len(rows) THEN rows[Len(rows) - 1]
        ELSE rows[i]]

\* the rows come from a file whose lines are in date order or not, uploaded
\* in this session or reloaded from a store; upload.newRows is that file
BtInit ==
    /\ selectedSport = "nfl"
    /\ \E n \in BtSizes, fromStore \in BOOLEAN, swapped \in BOOLEAN :
         \E raw \in BtRaw(n) :
            LET file == IF swapped THEN SwapLast(raw) ELSE raw
            IN  /\ swapped => ~fromStore
                /\ trainingData = IF fromStore
                                  THEN JsonRoundTrip(addLast5WinColumns(file))
                                  ELSE addLast5WinColumns(file)
                /\ upload = [pc |-> "idle", newRows |-> file]
    /\ \E m \in BtModels :
         /\ modelParams = m
         /\ modelTrained = (m # None)
    /\ trainingStats = None /\ featureImportance = None
    /\ prediction = None /\ evResult = None
    /\ matchupInputs = NoInputs /\ actualLines = NoLines
    /\ isTraining = FALSE /\ isBacktesting = FALSE /\ backtestResult = None
    /\ StoreInit
    /\ loadVersionRef = 0 /\ alerts = {}
    /\ loads = NoLoads /\ train = NoTrain /\ bt = NoBt /\ form = NoForm /\ calc = NoCalc

btFrame == <<selectedSport, trainingData, modelTrained, modelParams, trainingStats,
             featureImportance, prediction, evResult, matchupInputs, actualLines,
             isTraining, loadVersionRef, storeVars, loads, train, form, upload, calc>>

\* runBacktest returns at its precondition (the button is disabled while
\* isBacktesting)
RunBacktestRefused ==
    /\ bt.pc = "idle" /\ ~isBacktesting
    /\ ~BacktestPrecondition(modelTrained, modelParams, trainingData)
    /\ alerts' = alerts \cup {"Need a trained model and at least 50 games"}
    /\ UNCHANGED <<btFrame, isBacktesting, backtestResult, bt>>

\* precondition passed: flags set, data sorted, counters initialised
RunBacktestStart ==
    /\ bt.pc = "idle" /\ ~isBacktesting
    /\ BacktestPrecondition(modelTrained, modelParams, trainingData)
    /\ isBacktesting' = TRUE
    /\ backtestResult' = None
    /\ bt' = [pc |-> "loop", i |-> LoopStart, sorted |-> SortByDate(trainingData),
              balance |-> StartingBalance * MoneyScale,
              bets |-> [moneyline |-> NoBets, spread |-> NoBets, total |-> NoBets],
              history |-> <<>>]
    /\ UNCHANGED <<btFrame, alerts>>

\* features.map on a model without a feature list raises a TypeError; the
\* function has no try/finally, so nothing after the throw runs
ThrowsAt(st, m) ==
    /\ ~SkipsOnWinner(st.sorted[st.i + 1])
    /\ "features" \notin DOMAIN m

\* one iteration of the for loop
BacktestRow ==
    /\ bt.pc = "loop" /\ bt.i < Len(bt.sorted)
    /\ ~ThrowsAt(bt, modelParams)
    /\ bt' = BacktestIteration(bt, modelParams, selectedSport)
    /\ UNCHANGED <<btFrame, alerts, isBacktesting, backtestResult>>

BacktestThrow ==
    /\ bt.pc = "loop" /\ bt.i < Len(bt.sorted)
    /\ ThrowsAt(bt, modelParams)
    /\ bt' = NoBt
    /\ UNCHANGED <<btFrame, alerts, isBacktesting, backtestResult>>

\* after the loop: the result is published and the flag cleared
BacktestFinish ==
    /\ bt.pc = "loop" /\ bt.i >= Len(bt.sorted)
    /\ backtestResult' = BacktestSummary(bt)
    /\ isBacktesting' = FALSE
    /\ bt' = NoBt
    /\ UNCHANGED <<btFrame, alerts>>

BtNext == \/ RunBacktestRefused \/ RunBacktestStart \/ BacktestRow
          \/ BacktestThrow \/ BacktestFinish

SpecBacktest == BtInit /\ [][BtNext]_vars

----------------------------------------------------------------------------
(* Claims about runBacktest *)

ProfitUnits(bets) == TotalOf(bets, "profit")

\* C2: at every step of a replay and at completion, balance - 10000 equals
\* the sum of the moneyline, spread and total profits.
C2_BankrollConservation ==
    /\ bt.pc = "loop" =>
         bt.balance - StartingBalance * MoneyScale = ProfitUnits(bt.bets)
    /\ backtestResult # None =>
         /\ backtestResult.finalBalance - backtestResult.startingBalance
              = ProfitUnits(backtestResult.bets)
         /\ backtestResult.totalProfit = ProfitUnits(backtestResult.bets)

\* a finished replay that wagered in all three markets, with a net result
C2_Witness ==
    /\ backtestResult # None
    /\ \A mk \in Markets : backtestResult.bets[mk].bets > 0
    /\ backtestResult.bets.spread.profit # 0
    /\ backtestResult.finalBalance # backtestResult.startingBalance

\* the spread-adjusted result of a row, from its stored columns
IsSpreadPush(row) ==
    checkSpreadWinner(ParseFloat(row.home_final_score),
                      ParseFloat(row.away_final_score),
                      ParseFloat(row.spread)) = "push"

\* C3: a spread wager on a row whose spread-adjusted result is a push
\* changes neither the bankroll nor the spread profit and is counted
\* neither as a win nor as a loss.
C3_PushIsNeutral ==
    [][ ( /\ bt.pc = "loop" /\ bt'.pc = "loop" /\ bt'.i = bt.i + 1
          /\ IsSpreadPush(bt.sorted[bt.i + 1])
          /\ bt'.bets.spread.bets = bt.bets.spread.bets + 1 )
        => ( /\ bt'.bets.spread.profit = bt.bets.spread.profit
             /\ bt'.bets.spread.correct = bt.bets.spread.correct
             /\ bt'.balance - bt.balance
                  = (bt'.bets.moneyline.profit - bt.bets.moneyline.profit)
                    + (bt'.bets.total.profit - bt.bets.total.profit) ) ]_vars

\* C9: every run that set isBacktesting = true sets it to false again: once
\* no step of a run is left to execute, the component is not Running.
C9_BacktestCompletes == bt.pc = "idle" => ~isBacktesting

\* C10: while no trained model is present or fewer than 50 rows are
\* loaded, no call of runBacktest starts a run: isBacktesting stays false
\* and backtestResult keeps its value.
C10_BacktestRefuses ==
    [][ ( /\ bt.pc = "idle"
          /\ (~modelTrained \/ modelParams = None
              \/ Len(trainingData) < MinBacktestRows) )
        => ( /\ isBacktesting' = isBacktesting
             /\ isBacktesting' = FALSE
             /\ backtestResult' = backtestResult
             /\ bt'.pc = "idle" ) ]_vars

\* a refused call with a trained model one row short of the minimum
C10_Witness ==
    /\ alerts # {}
    /\ modelTrained /\ modelParams # None
    /\ Len(trainingData) = MinBacktestRows - 1
    /\ ~isBacktesting /\ backtestResult = None

\* the positions of the rows in the order the sort of runBacktest gives them
RECURSIVE InsertIndexByDate(_, _, _)
InsertIndexByDate(rows, sorted, k) ==
    IF sorted = <<>> THEN <<k>>
    ELSE IF getDate(rows[sorted[Len(sorted)]]) <= getDate(rows[k]) THEN Append(sorted, k)
    ELSE Append(InsertIndexByDate(rows, SubSeq(sorted, 1, Len(sorted) - 1), k),
                sorted[Len(sorted)])

RECURSIVE SortedIndexFold(_, _, _)
SortedIndexFold(rows, k, acc) ==
    IF k > Len(rows) THEN acc
    ELSE SortedIndexFold(rows, k + 1, InsertIndexByDate(rows, acc, k))

SortedIndices(rows) == SortedIndexFold(rows, 1, <<>>)

\* how many rows from the evaluated one onwards have their outcome altered
LookaheadSpan == 2

\* the loop is at a row that it will feed to the model
AtEvaluatedRow ==
    /\ bt.pc = "loop" /\ bt.i < Len(bt.sorted)
    /\ "features" \in DOMAIN modelParams
    /\ ~SkipsOnWinner(bt.sorted[bt.i + 1])
    /\ BacktestFeatures(bt.sorted[bt.i + 1], modelParams.features).valid

\* the row runBacktest would evaluate at position i had the file carried
\* winner label w in line u
EvaluatedRowHad(u, w, i) ==
    SortByDate(addLast5WinColumns(
        [upload.newRows EXCEPT ![u] = [@ EXCEPT !.winner = w]]))[i]

\* C11: the team1_last5 and team2_last5 values fed to the model for an
\* evaluated row do not depend on the outcome of that row or of a row that
\* follows it in the sorted order: with another winner label in such a row
\* of the uploaded file the same two values are fed.  (Checked for the row
\* itself and the LookaheadSpan - 1 rows after it.)
C11_BacktestFormIsChronological ==
    AtEvaluatedRow =>
        LET order == SortedIndices(upload.newRows)
            current == bt.sorted[bt.i + 1]
        IN  \A j \in (bt.i + 1)..Min(Len(order), bt.i + LookaheadSpan) :
              \A w \in {0, 1} :
                 LET had == EvaluatedRowHad(order[j], w, bt.i + 1)
                 IN  /\ had.team1_last5 = current.team1_last5
                     /\ had.team2_last5 = current.team2_last5

\* the expected value per $100 of a side exceeds the threshold
EvExceeds(prob, odds) == EvNum(prob, odds) > EvThreshold * EvDen(odds)

\* the prices of a market for a row, when the market is supported and the
\* row carries its line and its prices; p1 is the probability of side 1
MarketOdds(market, current, modelProb, sport) ==
    IF market = "moneyline"
    THEN [present |-> IsNum(current.team1_moneyline) /\ current.team1_moneyline # 0
                      /\ IsNum(current.team2_moneyline) /\ current.team2_moneyline # 0,
          p1 |-> modelProb,
          odds1 |-> current.team1_moneyline, odds2 |-> current.team2_moneyline]
    ELSE IF market = "spread"
    THEN [present |-> sports[sport].supportsSpread /\ IsNum(current.spread)
                      /\ IsNum(RowField(current, "spread_odds1"))
                      /\ IsNum(RowField(current, "spread_odds2")),
          p1 |-> IF IsNum(current.spread) THEN SpreadCoverProb(modelProb, current.spread)
                 ELSE modelProb,
          odds1 |-> RowField(current, "spread_odds1"),
          odds2 |-> RowField(current, "spread_odds2")]
    ELSE [present |-> sports[sport].supportsTotal /\ IsNum(current.total)
                      /\ IsNum(RowField(current, "over_odds"))
                      /\ IsNum(RowField(current, "under_odds")),
          p1 |-> TotalOverProb(modelProb),
          odds1 |-> RowField(current, "over_odds"),
          odds2 |-> RowField(current, "under_odds")]

\* C20: in runBacktest, for every evaluated row and every supported market
\* whose odds are present, a wager is placed if and only if the market's
\* best expected value per $100 exceeds 2.
C20_WagerIffAboveThreshold ==
    [][ (AtEvaluatedRow /\ bt'.pc = "loop" /\ bt'.i = bt.i + 1)
        => LET current == bt.sorted[bt.i + 1]
               modelProb == ModelProb(modelParams,
                               BacktestFeatures(current, modelParams.features).raw)
           IN  \A market \in Markets :
                 LET m == MarketOdds(market, current, modelProb, selectedSport)
                 IN  m.present
                     => ( bt'.bets[market].bets = bt.bets[market].bets + 1
                          <=> ( EvExceeds(m.p1, m.odds1)
                                \/ EvExceeds(PScale - m.p1, m.odds2) ) ) ]_vars

\* C21: the first 20 rows of the chronologically sorted data never produce
\* a wager: while runBacktest has processed only rows with sorted index
\* below 20, the bankroll is 10000 and every market's bets, correct and
\* profit counters are 0; no entry of the balance history is for such a row.
C21_WarmUpHasNoWager ==
    bt.pc = "loop"
    => /\ bt.i <= WarmUp
          => /\ bt.balance = StartingBalance * MoneyScale
             /\ \A mk \in Markets :
                   /\ bt.bets[mk].bets = 0
                   /\ bt.bets[mk].correct = 0
                   /\ bt.bets[mk].profit = 0
       /\ \A k \in 1..Len(bt.history) : bt.history[k].game >= WarmUp

\* a replay that has yet to read sorted[20], over warm-up rows that carry
\* both moneylines and a winner, with a model that can evaluate rows
C21_Witness ==
    /\ bt.pc = "loop" /\ bt.i = WarmUp /\ bt.history = <<>>
    /\ "features" \in DOMAIN modelParams
    /\ \A k \in 1..WarmUp :
          /\ ~SkipsOnWinner(bt.sorted[k])
          /\ BacktestFeatures(bt.sorted[k], modelParams.features).valid

\* the change of a market's profit over one iteration, which is the amount
\* the iteration's wager in that market added to the bankroll
MarketGain(mk) == bt'.bets[mk].profit - bt.bets[mk].profit

\* C23: in runBacktest every wager counted as won (the market's correct
\* counter is incremented) increases the bankroll by a strictly positive
\* amount, and every wager not counted as won decreases it by exactly 100,
\* in each of the moneyline, spread and total markets.
C23_WonGainsLostLosesStake ==
    [][ (bt.pc = "loop" /\ bt'.pc = "loop" /\ bt'.i = bt.i + 1)
        => /\ bt'.balance - bt.balance
                = MarketGain("moneyline") + MarketGain("spread") + MarketGain("total")
           /\ \A mk \in Markets :
                 bt'.bets[mk].bets = bt.bets[mk].bets + 1
                 => IF bt'.bets[mk].correct = bt.bets[mk].correct + 1
                    THEN MarketGain(mk) > 0
                    ELSE MarketGain(mk) = -(Stake * MoneyScale) ]_vars

\* the same of the moneyline market alone
MoneylineWonGainsLostLosesStake ==
    [][ (bt.pc = "loop" /\ bt'.pc = "loop" /\ bt'.i = bt.i + 1
         /\ bt'.bets.moneyline.bets = bt.bets.moneyline.bets + 1)
        => IF bt'.bets.moneyline.correct = bt.bets.moneyline.correct + 1
           THEN MarketGain("moneyline") > 0
           ELSE MarketGain("moneyline") = -(Stake * MoneyScale) ]_vars

\* the side the moneyline wager of an evaluated row backs
MoneylineSide(current, m) ==
    calculateEV(ModelProb(m, BacktestFeatures(current, m.features).raw),
                ParseFloat(current.team1_moneyline),
                ParseFloat(current.team2_moneyline)).side

\* the side (1: home, 2: away) scored more than the other
Outscored(current, side) ==
    LET h == ParseFloat(current.home_final_score)
        a == ParseFloat(current.away_final_score)
    IN  IF side = 1 THEN h > a ELSE a > h

\* C24: in runBacktest a moneyline wager on a side is counted as won if and
\* only if that side outscored the other in the game, also for rows whose
\* winner label was derived at upload from final scores together with a
\* spread.  (Stated of the rows that carry both final scores.)
C24_MoneylineWonIffOutscored ==
    [][ ( /\ AtEvaluatedRow /\ bt'.pc = "loop" /\ bt'.i = bt.i + 1
          /\ bt'.bets.moneyline.bets = bt.bets.moneyline.bets + 1
          /\ IsNum(ParseFloat(bt.sorted[bt.i + 1].home_final_score))
          /\ IsNum(ParseFloat(bt.sorted[bt.i + 1].away_final_score)) )
        => ( bt'.bets.moneyline.correct = bt.bets.moneyline.correct + 1
             <=> Outscored(bt.sorted[bt.i + 1],
                           MoneylineSide(bt.sorted[bt.i + 1], modelParams)) ) ]_vars

----------------------------------------------------------------------------
(* trainLogisticRegression, in thousandths.  The descent runs Epochs      *)
(* rounds; the source asks for 500, the model for at most MaxEpochs.      *)

MaxEpochs == 2
Epochs == Min(500, MaxEpochs)
LearningRate == 120
Lambda == 12

\* a function over 1..n as an explicit sequence
Eager(f) == SubSeq(f, 1, Len(f))

\* Math.sqrt on a variance given in millionths, rounded down to thousandths
Isqrt(v) == CHOOSE r \in 0..PScale : r * r <= v /\ v < (r + 1) * (r + 1)

ColMean(X, j) == SumSeq([i \in 1..Len(X) |-> X[i][j]]) \div Len(X)

\* s || 1
ColStd(X, j, mean) ==
    LET variance == SumSeq([i \in 1..Len(X) |->
                               (X[i][j] - mean) * (X[i][j] - mean)]) \div Len(X)
        s == Isqrt(variance)
    IN  IF s = 0 THEN PScale ELSE s

Dot(w, x) == SumSeq([j \in 1..Len(w) |-> (w[j] * x[j]) \div PScale])

\* one epoch of the descent
GradientStep(Xnorm, y, wb) ==
    LET n == Len(Xnorm)
        nF == Len(wb.weights)
        error == Eager([i \in 1..n |->
                    sigmoid(wb.bias + Dot(wb.weights, Xnorm[i])) - y[i] * PScale])
        gradW == Eager([j \in 1..nF |->
                    SumSeq([i \in 1..n |-> (error[i] * Xnorm[i][j]) \div PScale]) \div n])
        gradB == SumSeq(error) \div n
    IN  [weights |-> Eager([j \in 1..nF |->
                        wb.weights[j]
                        - (LearningRate * (gradW[j] + (Lambda * wb.weights[j]) \div PScale))
                            \div PScale]),
         bias |-> wb.bias - (LearningRate * gradB) \div PScale]

RECURSIVE Descend(_, _, _, _)
Descend(Xnorm, y, wb, k) ==
    IF k = 0 THEN wb ELSE Descend(Xnorm, y, GradientStep(Xnorm, y, wb), k - 1)

trainLogisticRegression(X, y) ==
    LET nSamples == Len(X)
        nFeatures == Len(X[1])
        means == Eager([j \in 1..nFeatures |-> ColMean(X, j)])
        stds == Eager([j \in 1..nFeatures |-> ColStd(X, j, means[j])])
        Xnorm == Eager([i \in 1..nSamples |->
                    Eager([j \in 1..nFeatures |->
                        ((X[i][j] - means[j]) * PScale) \div stds[j]])])
        wb == Descend(Xnorm, y, [weights |-> [j \in 1..nFeatures |-> 0], bias |-> 0],
                      Epochs)
        correct == Cardinality({i \in 1..nSamples :
                      (IF sigmoid(wb.bias + Dot(wb.weights, Xnorm[i])) >= PScale \div 2
                       THEN 1 ELSE 0) = y[i]})
    IN  [weights |-> wb.weights, bias |-> wb.bias, means |-> means, stds |-> stds,
         accuracy |-> RoundDiv(correct * PScale, nSamples), samplesUsed |-> nSamples]

\* features ranked by |weight|, largest first (a stable sort)
RECURSIVE InsertByWeight(_, _)
InsertByWeight(sorted, e) ==
    IF sorted = <<>> THEN <<e>>
    ELSE IF sorted[Len(sorted)].weight >= e.weight THEN Append(sorted, e)
    ELSE Append(InsertByWeight(SubSeq(sorted, 1, Len(sorted) - 1), e), sorted[Len(sorted)])

RECURSIVE ImportanceFold(_, _, _, _)
ImportanceFold(feats, weights, i, acc) ==
    IF i > Len(feats) THEN acc
    ELSE ImportanceFold(feats, weights, i + 1,
            InsertByWeight(acc, [feature |-> feats[i],
                                 weight |-> IF i <= Len(weights) THEN Abs(weights[i]) ELSE 0]))

Importance(feats, weights) == ImportanceFold(feats, weights, 1, <<>>)

----------------------------------------------------------------------------
(* trainModel: gating, the training matrix, the outcome of its catch      *)

MinTrainRows == 20

\* r.winner === 0 || r.winner === 1 || r.winner === '0' || r.winner === '1'
UsableRow(r) == r.winner \in {0, 1}

\* indices of the rows that pass the filter
Usable(data) == {i \in 1..Len(data) : UsableRow(data[i])}

\* a feature value in thousandths: the rolling-form columns are kept in
\* sixtieths, every other column in units
FeatureUnits(f, num) ==
    IF f \in {"team1_last5", "team2_last5"} THEN (num * PScale) \div FormScale
    ELSE num * PScale

\* one cell of X
TrainFeature(row, f) ==
    IF f \in {"team1_moneyline", "team2_moneyline"}
    THEN LET fair == removeVig(moneylineToFairProb(RowField(row, "team1_moneyline")),
                               moneylineToFairProb(RowField(row, "team2_moneyline")))
         IN  IF f = "team1_moneyline" THEN fair.p1 ELSE fair.p2
    ELSE LET num == NumberOf(RowField(row, f))
         IN  IF IsNum(num) THEN FeatureUnits(f, num) ELSE 0

\* the usable rows in their order
RECURSIVE UsableSeq(_, _)
UsableSeq(data, i) ==
    IF i > Len(data) THEN <<>>
    ELSE IF UsableRow(data[i]) THEN <<data[i]>> \o UsableSeq(data, i + 1)
    ELSE UsableSeq(data, i + 1)

TrainingMatrix(data, features) ==
    LET usable == UsableSeq(data, 1)
    IN  [X |-> Eager([i \in 1..Len(usable) |->
                   Eager([j \in 1..Len(features) |-> TrainFeature(usable[i], features[j])])]),
         y |-> Eager([i \in 1..Len(usable) |-> NumberOf(usable[i].winner)])]

\* what the try block of trainModel puts in state
TrainedState(data, features) ==
    LET m == TrainingMatrix(data, features)
        result == trainLogisticRegression(m.X, m.y)
    IN  [modelParams |-> [weights |-> result.weights, bias |-> result.bias,
                          means |-> result.means, stds |-> result.stds,
                          features |-> features],
         trainingStats |-> [accuracy |-> result.accuracy,
                            samplesUsed |-> result.samplesUsed],
         featureImportance |-> Importance(features, result.weights)]

TrainingErrorStateReset(cur) ==
    [modelTrained |-> FALSE, modelParams |-> None, trainingStats |-> None]

\* the model state after the outer catch of trainModel, given the state
\* before it: the catch alerts and sets nothing
TrainingErrorState(cur) ==
    [modelTrained |-> cur.modelTrained, modelParams |-> cur.modelParams,
     trainingStats |-> cur.trainingStats]

\* the stored form {modelParams, trainingStats} of a model
StoredModel(m, stats) == [modelParams |-> m, trainingStats |-> stats]

\* the stored form of a row list, after JSON.stringify
StoredRows(rows) == [rows |-> JsonRoundTrip(rows)]

----------------------------------------------------------------------------
(* SpecTrain: a CSV file is uploaded (handleDataUpload), any number of    *)
(* times, and trainModel is run on it; every write to local storage or to *)
(* the server may fail.                                                   *)

MaxTrainExtra == 1

TrainSizes == {MinTrainRows - 1, MinTrainRows, MinTrainRows + MaxTrainExtra}

\* rows of a file that carry an explicit 0/1 label
Labelled(i) ==
    IF i % 2 = 1 THEN Row("A", "B", -200, 170, Empty, Empty, Empty, Empty, 1, i)
    ELSE Row("B", "A", 150, -200, Empty, Empty, Empty, Empty, 0, i)

RestKinds == {"blank", "push", "two", "text", "scores"}

\* the other rows of a file
Rest(kind, i) ==
    CASE kind = "blank"  -> Row("A", "C", -150, 130, Empty, Empty, Empty, Empty, Empty, i)
      [] kind = "push"   -> Row("A", "C", -150, 130, -3, Empty, 24, 21, Empty, i)
      [] kind = "two"    -> Row("A", "C", -150, 130, Empty, Empty, Empty, Empty, 2, i)
      [] kind = "text"   -> Row("A", "C", -150, 130, Empty, Empty, Empty, Empty, Text, i)
      [] kind = "scores" -> Row("A", "C", -150, 130, Empty, Empty, 27, 20, Empty, i)

TrainFile(n, u, kind) == [i \in 1..n |-> IF i <= u THEN Labelled(i) ELSE Rest(kind, i)]

TrainFiles == {TrainFile(n, u, kind) : n \in TrainSizes, u \in {0, 5, MinTrainRows - 1},
                                       kind \in RestKinds}

SaveOutcomes == {"ok", "throws"}
PostOutcomes == {"ok", "throws", "rejected"}

TrainInit ==
    /\ selectedSport \in Sports
    /\ trainingData = <<>>
    /\ modelTrained = FALSE /\ modelParams = None
    /\ trainingStats = None /\ featureImportance = None
    /\ prediction = None /\ evResult = None
    /\ matchupInputs = NoInputs /\ actualLines = NoLines
    /\ isTraining = FALSE /\ isBacktesting = FALSE /\ backtestResult = None
    /\ StoreInit
    /\ loadVersionRef = 1 /\ alerts = {}
    /\ loads = NoLoads /\ train = NoTrain /\ bt = NoBt /\ form = NoForm /\ calc = NoCalc
    /\ \E file \in TrainFiles :
         upload = [pc |-> "idle", newRows |-> <<>>, file |-> file]

\* handleDataUpload up to its first write: the file is parsed, the rows
\* are augmented for a team sport, and the model state is reset
UploadRead ==
    /\ upload.pc = "idle" /\ train.pc = "idle"
    /\ LET newRows == upload.file
           finalRows == IF sports[selectedSport].isTeamSeasonSport
                        THEN addLast5WinColumns(newRows) ELSE newRows
       IN  /\ trainingData' = finalRows
           /\ upload' = [pc |-> "localSave", newRows |-> newRows,
                         file |-> upload.file, sport |-> selectedSport]
    /\ trainingStats' = None /\ modelTrained' = FALSE /\ modelParams' = None
    /\ prediction' = None /\ evResult' = None /\ backtestResult' = None
    /\ UNCHANGED <<selectedSport, featureImportance, matchupInputs, actualLines,
                   isTraining, isBacktesting, loadVersionRef, storeVars, alerts,
                   loads, train, bt, form, calc>>

\* await window.storage.set(training-<sport>): a throw reaches the outer
\* catch, which skips the rest of the handler
UploadLocalSave ==
    /\ upload.pc = "localSave"
    /\ \E outcome \in SaveOutcomes :
         IF outcome = "ok"
         THEN /\ localTraining' = [localTraining EXCEPT
                                     ![upload.sport] = StoredRows(trainingData)]
              /\ upload' = [upload EXCEPT !.pc = "serverSave"]
              /\ UNCHANGED alerts
         ELSE /\ alerts' = alerts \cup {"Failed to read CSV"}
              /\ upload' = [pc |-> "idle", newRows |-> upload.newRows,
                            file |-> upload.file]
              /\ UNCHANGED localTraining
    /\ UNCHANGED <<compVars, loadVersionRef, serverTraining, serverModel, localModel,
                   loads, train, bt, form, calc>>

\* the POST of the rows in its own try, then the closing alert
UploadServerSave ==
    /\ upload.pc = "serverSave"
    /\ \E outcome \in PostOutcomes :
         IF outcome = "ok"
         THEN serverTraining' = [serverTraining EXCEPT
                                   ![upload.sport] = StoredRows(trainingData)]
         ELSE UNCHANGED serverTraining
    /\ alerts' = alerts \cup {"Loaded games"}
    /\ upload' = [pc |-> "idle", newRows |-> upload.newRows, file |-> upload.file]
    /\ UNCHANGED <<compVars, loadVersionRef, serverModel, localTraining, localModel,
                   loads, train, bt, form, calc>>

\* trainModel returns at one of its two checks (the button is disabled
\* while training and while no rows are loaded)
TrainRefused ==
    /\ train.pc = "idle" /\ ~isTraining /\ Len(trainingData) > 0
    /\ \/ /\ Len(trainingData) < MinTrainRows
          /\ alerts' = alerts \cup {"Need at least 20 games"}
       \/ /\ Len(trainingData) >= MinTrainRows
          /\ Usable(trainingData) = {}
          /\ alerts' = alerts \cup {"No rows with winner = 0 or 1"}
    /\ UNCHANGED <<compVars, loadVersionRef, storeVars, loads, train, bt, form, upload, calc>>

\* both checks passed: the matrix is built, the model is fitted and put in
\* state, and the handler waits for its first write
TrainRun ==
    /\ train.pc = "idle" /\ ~isTraining
    /\ Len(trainingData) >= MinTrainRows
    /\ Usable(trainingData) # {}
    /\ LET t == TrainedState(trainingData, sports[selectedSport].features)
       IN  /\ modelParams' = t.modelParams
           /\ trainingStats' = t.trainingStats
           /\ featureImportance' = t.featureImportance
           /\ train' = [pc |-> "localSave", sport |-> selectedSport,
                        usable |-> Usable(trainingData),
                        model |-> t.modelParams, stats |-> t.trainingStats]
    /\ modelTrained' = TRUE
    /\ isTraining' = TRUE
    /\ backtestResult' = None
    /\ UNCHANGED <<selectedSport, trainingData, prediction, evResult, matchupInputs,
                   actualLines, isBacktesting, loadVersionRef, storeVars, alerts,
                   loads, bt, form, upload, calc>>

\* await window.storage.set(model-<sport>): a throw reaches the outer
\* catch and the finally
TrainLocalSave ==
    /\ train.pc = "localSave"
    /\ \E outcome \in SaveOutcomes :
         IF outcome = "ok"
         THEN /\ localModel' = [localModel EXCEPT
                                  ![train.sport] = StoredModel(train.model, train.stats)]
              /\ train' = [train EXCEPT !.pc = "serverSave"]
              /\ UNCHANGED <<modelTrained, modelParams, trainingStats, isTraining, alerts>>
         ELSE LET after == TrainingErrorState([modelTrained |-> modelTrained,
                                               modelParams |-> modelParams,
                                               trainingStats |-> trainingStats])
              IN  /\ modelTrained' = after.modelTrained
                  /\ modelParams' = after.modelParams
                  /\ trainingStats' = after.trainingStats
                  /\ alerts' = alerts \cup {"Training failed"}
                  /\ isTraining' = FALSE
                  /\ train' = NoTrain
                  /\ UNCHANGED localModel
    /\ UNCHANGED <<selectedSport, trainingData, featureImportance, prediction, evResult,
                   matchupInputs, actualLines, isBacktesting, backtestResult,
                   loadVersionRef, serverTraining, serverModel, localTraining,
                   loads, bt, form, upload, calc>>

\* the POST of the model in its own try, the closing alert and the finally
TrainServerSave ==
    /\ train.pc = "serverSave"
    /\ \E outcome \in PostOutcomes :
         IF outcome = "ok"
         THEN serverModel' = [serverModel EXCEPT
                                ![train.sport] = StoredModel(train.model, train.stats)]
         ELSE UNCHANGED serverModel
    /\ alerts' = alerts \cup {"PRO MODEL TRAINED"}
    /\ isTraining' = FALSE
    /\ train' = NoTrain
    /\ UNCHANGED <<selectedSport, trainingData, modelTrained, modelParams, trainingStats,
                   featureImportance, prediction, evResult, matchupInputs, actualLines,
                   isBacktesting, backtestResult, loadVersionRef, serverTraining,
                   localTraining, localModel, loads, bt, form, upload, calc>>

TrainNext == \/ UploadRead \/ UploadLocalSave \/ UploadServerSave
             \/ TrainRefused \/ TrainRun \/ TrainLocalSave \/ TrainServerSave

SpecTrain == TrainInit /\ [][TrainNext]_vars

----------------------------------------------------------------------------
(* Claims about trainModel *)

\* C4: while fewer than the minimum number of usable rows (rows with a
\* binary winner) are loaded, no step of trainModel produces a model:
\* modelParams, modelTrained and trainingStats keep their values, nothing is
\* written to either store and no training run is started, whatever the
\* total number of loaded rows is.
C4_RefusesBelowMinimum ==
    [][ ( /\ train.pc = "idle" /\ upload' = upload
          /\ Cardinality(Usable(trainingData)) < MinTrainRows )
        => ( /\ train'.pc = "idle"
             /\ modelParams' = modelParams
             /\ modelTrained' = modelTrained
             /\ trainingStats' = trainingStats
             /\ localModel' = localModel
             /\ serverModel' = serverModel ) ]_vars

\* an uploaded row carries a genuine binary winner: an explicit 0/1 label,
\* or no label and final scores that decide the game
GenuineWinner(raw, sport) ==
    \/ raw.winner \in {0, 1}
    \/ /\ sports[sport].isTeamSeasonSport
       /\ raw.winner \in {Empty, Null, Undef}
       /\ determineWinnerFromScores(ScoreOf(raw.home_final_score),
                                    ScoreOf(raw.away_final_score), raw.spread) \in {0, 1}

\* C5: every row in the training matrix comes from an uploaded row with a
\* genuine binary winner; a row without a label whose scores are missing or
\* whose spread-adjusted result is a push is not in the matrix.
C5_OnlyGenuineWinners ==
    train.pc \in {"localSave", "serverSave"} =>
        \A i \in train.usable : GenuineWinner(upload.newRows[i], train.sport)

\* C8: when a persistence step of trainModel fails after the model was
\* fitted (the local write throws, or the POST throws or is rejected), the
\* run ends with the new model in state and isTraining false.
C8_ModelSurvivesSaveFailure ==
    [][ ( /\ train.pc \in {"localSave", "serverSave"} /\ train'.pc = "idle"
          /\ localModel' = localModel /\ serverModel' = serverModel )
        => ( /\ modelTrained'
             /\ modelParams' = train.model
             /\ trainingStats' = train.stats
             /\ ~isTraining' ) ]_vars

\* a run whose local write threw: nothing stored, the model still in state
C8_Witness ==
    /\ "Training failed" \in alerts
    /\ "PRO MODEL TRAINED" \notin alerts
    /\ train.pc = "idle" /\ ~isTraining
    /\ modelTrained /\ modelParams # None /\ trainingStats # None
    /\ \A s \in Sports : localModel[s] = None /\ serverModel[s] = None

\* C26: a failing local-storage write never prevents the server save:
\* whenever trainModel has produced a model, or handleDataUpload has
\* produced rows, the corresponding POST to the server is attempted even if
\* window.storage.set throws.
C26_ServerSaveAttempted ==
    [][ /\ (upload.pc = "localSave" /\ upload'.pc # "localSave")
            => upload'.pc = "serverSave"
        /\ (train.pc = "localSave" /\ train'.pc # "localSave")
            => train'.pc = "serverSave" ]_vars

----------------------------------------------------------------------------
(* calculatePrediction *)

\* what an <input type="number"> delivers as e.target.value for the text
\* typed into it: the text when it is a number, '' otherwise
NumberField(text) == IF IsNum(text) THEN text ELSE Empty

InputMissingNoEmpty(v) == v \in {Undef, Null}

\* matchupInputs[f] === undefined || === null || === ''
InputMissing(v) == v \in {Undef, Null, Empty}

\* the features the missing check reports
Missing(features, inputs) ==
    {j \in 1..Len(features) : InputMissing(RowField(inputs, features[j]))}

HasFeature(features, f) == \E j \in 1..Len(features) : features[j] = f

\* the raw feature vector of a matchup, in thousandths
PredictionRaw(features, inputs) ==
    LET both == HasFeature(features, "team1_moneyline")
                /\ HasFeature(features, "team2_moneyline")
        ml1 == ParseFloat(RowField(inputs, "team1_moneyline"))
        ml2 == ParseFloat(RowField(inputs, "team2_moneyline"))
        novig == removeVig(moneylineToFairProb(ml1), moneylineToFairProb(ml2))
    IN  [j \in 1..Len(features) |->
            IF features[j] = "team1_moneyline" /\ both THEN novig.p1
            ELSE IF features[j] = "team2_moneyline" /\ both THEN novig.p2
            ELSE LET val == ParseFloat(RowField(inputs, features[j]))
                 IN  IF IsNum(val) THEN FeatureUnits(features[j], val) ELSE 0]

probToMoneyline(prob) ==
    IF prob <= 0 \/ prob >= PScale THEN 0
    ELSE IF prob >= PScale \div 2 THEN MathRound(-(prob * 100), PScale - prob)
    ELSE MathRound((PScale - prob) * 100, prob)

\* the prediction shown for a probability p; percentages in tenths
PredictionOf(p) ==
    [team1_win_prob |-> p, team2_win_prob |-> PScale - p,
     team1_implied_line |-> probToMoneyline(p),
     team2_implied_line |-> probToMoneyline(PScale - p),
     confidence |-> Abs(p - PScale \div 2) * 2]

\* a non-empty string in a market-line field
Filled(v) == v # Empty

\* allResults: one entry per market whose lines are all filled in
AllResults(p, lines, sport) ==
    (IF Filled(lines.ML1) /\ Filled(lines.ML2)
        /\ IsNum(ParseFloat(lines.ML1)) /\ IsNum(ParseFloat(lines.ML2))
     THEN <<calculateEV(p, ParseFloat(lines.ML1), ParseFloat(lines.ML2))>> ELSE <<>>)
    \o
    (IF sports[sport].supportsSpread /\ Filled(lines.Spread)
        /\ Filled(lines.SpreadOdds1) /\ Filled(lines.SpreadOdds2)
        /\ IsNum(ParseFloat(lines.Spread)) /\ IsNum(ParseFloat(lines.SpreadOdds1))
        /\ IsNum(ParseFloat(lines.SpreadOdds2))
     THEN <<calculateSpreadEV(p, ParseFloat(lines.Spread), ParseFloat(lines.SpreadOdds1),
                              ParseFloat(lines.SpreadOdds2))>> ELSE <<>>)
    \o
    (IF sports[sport].supportsTotal /\ Filled(lines.Total)
        /\ Filled(lines.OverOdds) /\ Filled(lines.UnderOdds)
        /\ IsNum(ParseFloat(lines.Total)) /\ IsNum(ParseFloat(lines.OverOdds))
        /\ IsNum(ParseFloat(lines.UnderOdds))
     THEN <<calculateTotalEV(p, ParseFloat(lines.Total), ParseFloat(lines.OverOdds),
                             ParseFloat(lines.UnderOdds))>> ELSE <<>>)

----------------------------------------------------------------------------
(* SpecPredict: the matchup fields are edited and calculatePrediction is  *)
(* called, with or without a trained model and with none, one or all of   *)
(* the market lines filled in.                                            *)

PredictModels == {TrainedA, TrainedB, None}

LinePresets ==
    { NoLines,
      [NoLines EXCEPT !.ML1 = -150, !.ML2 = 130],
      [NoLines EXCEPT !.ML1 = -150, !.ML2 = 130,
                      !.Spread = -3, !.SpreadOdds1 = -110, !.SpreadOdds2 = -110,
                      !.Total = 45, !.OverOdds = -110, !.UnderOdds = -110] }

\* numbers a user types into the field of a feature (rates in sixtieths)
TypedNumbers(f) ==
    IF f \in {"team1_last5", "team2_last5"} THEN {36} ELSE {-150, 130}

\* text a user types into the field of a feature
TypedTexts(f) == TypedNumbers(f) \cup {Empty, Text}

PredictInit ==
    /\ selectedSport = "nfl"
    /\ trainingData = <<>>
    /\ \E m \in PredictModels :
         /\ modelParams = m
         /\ modelTrained = (m # None)
    /\ trainingStats = None /\ featureImportance = None
    /\ prediction = None /\ evResult = None
    /\ matchupInputs = NoInputs
    /\ actualLines \in LinePresets
    /\ isTraining = FALSE /\ isBacktesting = FALSE /\ backtestResult = None
    /\ StoreInit
    /\ loadVersionRef = 1 /\ alerts = {}
    /\ loads = NoLoads /\ train = NoTrain /\ bt = NoBt /\ form = NoForm /\ calc = NoCalc
    /\ upload = NoUpload

predictFrame == <<selectedSport, trainingData, modelTrained, modelParams, trainingStats,
                  featureImportance, actualLines, isTraining, isBacktesting,
                  backtestResult, loadVersionRef, storeVars, loads, train, bt, form,
                  upload, calc>>

\* onChange of the field of a feature
SetMatchupInput ==
    /\ \E j \in 1..Len(sports[selectedSport].features) :
         LET f == sports[selectedSport].features[j]
         IN  \E text \in TypedTexts(f) :
                matchupInputs' = [matchupInputs EXCEPT ![f] = NumberField(text)]
    /\ UNCHANGED <<predictFrame, prediction, evResult, alerts>>

\* calculatePrediction without a model
PredictNoModel ==
    /\ ~modelTrained \/ modelParams = None
    /\ alerts' = alerts \cup {"Train model first"}
    /\ UNCHANGED <<predictFrame, prediction, evResult, matchupInputs>>

\* calculatePrediction returns at the missing check
PredictMissing ==
    /\ modelTrained /\ modelParams # None
    /\ Missing(modelParams.features, matchupInputs) # {}
    /\ alerts' = alerts \cup {"Missing"}
    /\ UNCHANGED <<predictFrame, prediction, evResult, matchupInputs>>

\* calculatePrediction past its checks
PredictRun ==
    /\ modelTrained /\ modelParams # None
    /\ Missing(modelParams.features, matchupInputs) = {}
    /\ LET p == ModelProb(modelParams, PredictionRaw(modelParams.features, matchupInputs))
           allResults == AllResults(p, actualLines, selectedSport)
       IN  /\ prediction' = PredictionOf(p)
           /\ evResult' = IF Len(allResults) > 0 THEN [results |-> allResults] ELSE None
    /\ UNCHANGED <<predictFrame, matchupInputs, alerts>>

PredictNext == SetMatchupInput \/ PredictNoModel \/ PredictMissing \/ PredictRun

SpecPredict == PredictInit /\ [][PredictNext]_vars

\* a value from which no number can be read
NotNumeric(v) == ~IsNum(ParseFloat(v))

----------------------------------------------------------------------------
(* SpecLoad: loadSaved, started on mount and again whenever another sport *)
(* is selected; each invocation keeps the sport and the loadId it started *)
(* with, and every request may fail.                                      *)

MaxLoads == 2

TennisModel == [weights |-> <<300, -300>>, bias |-> 0, means |-> <<0, 0>>,
                stds |-> <<1000, 1000>>, features |-> TennisFeatures]

\* what a store may hold for a sport
SavedRows(s, where) ==
    IF s = "nfl"
    THEN IF where = "server"
         THEN StoredRows(addLast5WinColumns(<<Labelled(1), Labelled(2)>>))
         ELSE StoredRows(addLast5WinColumns(<<Labelled(1)>>))
    ELSE IF where = "server" THEN StoredRows(<<Labelled(1), Labelled(2), Labelled(3)>>)
         ELSE StoredRows(<<Labelled(2)>>)

SavedModel(s, where) ==
    IF s = "nfl"
    THEN IF where = "server"
         THEN StoredModel(TrainedA, [accuracy |-> 650, samplesUsed |-> 20])
         ELSE StoredModel(LegacyModel, None)
    ELSE IF where = "server"
         THEN StoredModel(TennisModel, [accuracy |-> 600, samplesUsed |-> 30])
         ELSE StoredModel(TennisModel, [accuracy |-> 550, samplesUsed |-> 25])

\* per sport: nothing stored, stored on the server, locally, or both
StoreProfiles == {"none", "server", "local", "both"}

OnServer(profile) == profile \in {"server", "both"}
OnLocal(profile) == profile \in {"local", "both"}

\* a loadSaved invocation that has reached its first await
LoadStarted(id, s) ==
    [id |-> id, sport |-> s, pc |-> "trainingFetch",
     trainingLoadedFromServer |-> FALSE, modelLoadedFromServer |-> FALSE]

LoadInit ==
    /\ CompInit
    /\ \E profile \in [Sports -> StoreProfiles] :
         /\ serverTraining = [s \in Sports |->
                IF OnServer(profile[s]) THEN SavedRows(s, "server") ELSE None]
         /\ localTraining = [s \in Sports |->
                IF OnLocal(profile[s]) THEN SavedRows(s, "local") ELSE None]
         /\ serverModel = [s \in Sports |->
                IF OnServer(profile[s]) THEN SavedModel(s, "server") ELSE None]
         /\ localModel = [s \in Sports |->
                IF OnLocal(profile[s]) THEN SavedModel(s, "local") ELSE None]
    /\ loadVersionRef = 1
    /\ loads = <<LoadStarted(1, "nfl")>>
    /\ alerts = {}
    /\ train = NoTrain /\ bt = NoBt /\ form = NoForm /\ calc = NoCalc /\ upload = NoUpload

loadFrame == <<actualLines, isTraining, isBacktesting, storeVars, alerts, train, bt,
               form, upload, calc>>

RequestOutcomes == {"ok", "fails"}

\* setSelectedSport(key) and the effect it triggers: loadSaved up to its
\* first await
SelectSport ==
    /\ Len(loads) < MaxLoads
    /\ \E s \in Sports \ {selectedSport} :
         /\ selectedSport' = s
         /\ loads' = Append(loads, LoadStarted(loadVersionRef + 1, s))
    /\ loadVersionRef' = loadVersionRef + 1
    /\ prediction' = None /\ evResult' = None /\ matchupInputs' = NoInputs
    /\ trainingData' = <<>>
    /\ backtestResult' = None
    /\ UNCHANGED <<modelTrained, modelParams, trainingStats, featureImportance, loadFrame>>

\* the feature ranking loadSaved derives from a stored model
LoadedImportance(mp, s) ==
    Importance(IF "features" \in DOMAIN mp THEN mp.features ELSE sports[s].features,
               mp.weights)

\* the response to GET /api/training-data arrives; when the rows were
\* taken, the invocation goes on to reset the model info and to request
\* the model, otherwise it turns to local storage
LoadTrainingFetch(k) ==
    /\ loads[k].pc = "trainingFetch"
    /\ \E outcome \in RequestOutcomes :
         LET l == loads[k]
             stored == serverTraining[l.sport]
             taken == outcome = "ok" /\ stored # None /\ loadVersionRef = l.id
         IN  IF taken
             THEN /\ trainingData' = stored.rows
                  /\ modelTrained' = FALSE /\ modelParams' = None
                  /\ trainingStats' = None /\ featureImportance' = None
                  /\ loads' = [loads EXCEPT ![k].pc = "modelFetch",
                                            ![k].trainingLoadedFromServer = TRUE]
             ELSE /\ loads' = [loads EXCEPT ![k].pc = "trainingLocal"]
                  /\ UNCHANGED <<trainingData, modelTrained, modelParams, trainingStats,
                                 featureImportance>>
    /\ UNCHANGED <<selectedSport, prediction, evResult, matchupInputs, backtestResult,
                   loadVersionRef, loadFrame>>

\* window.storage.get(training-<sport>) returns; then the model info is
\* reset and the model requested
LoadTrainingLocal(k) ==
    /\ loads[k].pc = "trainingLocal"
    /\ \E outcome \in RequestOutcomes :
         LET l == loads[k]
             stored == localTraining[l.sport]
             taken == outcome = "ok" /\ stored # None /\ loadVersionRef = l.id
         IN  trainingData' = IF taken THEN stored.rows ELSE trainingData
    /\ modelTrained' = FALSE /\ modelParams' = None
    /\ trainingStats' = None /\ featureImportance' = None
    /\ loads' = [loads EXCEPT ![k].pc = "modelFetch"]
    /\ UNCHANGED <<selectedSport, prediction, evResult, matchupInputs, backtestResult,
                   loadVersionRef, loadFrame>>

\* a stored model marked as taken over without its parameters
TakeModelUnset(stored, s) ==
    [modelParams |-> None, trainingStats |-> trainingStats,
     featureImportance |-> featureImportance]

\* the model state after a stored model was taken over
TakeModel(stored, s) ==
    [modelParams |-> stored.modelParams,
     trainingStats |-> IF stored.trainingStats # None THEN stored.trainingStats
                       ELSE trainingStats,
     featureImportance |-> IF "weights" \in DOMAIN stored.modelParams
                           THEN LoadedImportance(stored.modelParams, s)
                           ELSE featureImportance]

\* the response to GET /api/model arrives
LoadModelFetch(k) ==
    /\ loads[k].pc = "modelFetch"
    /\ \E outcome \in RequestOutcomes :
         LET l == loads[k]
             stored == serverModel[l.sport]
             taken == outcome = "ok" /\ stored # None /\ loadVersionRef = l.id
         IN  IF taken
             THEN /\ modelParams' = TakeModel(stored, l.sport).modelParams
                  /\ modelTrained' = TRUE
                  /\ trainingStats' = TakeModel(stored, l.sport).trainingStats
                  /\ featureImportance' = TakeModel(stored, l.sport).featureImportance
                  /\ loads' = [loads EXCEPT ![k].pc = "done",
                                            ![k].trainingLoadedFromServer = FALSE]
             ELSE /\ loads' = [loads EXCEPT ![k].pc = "modelLocal"]
                  /\ UNCHANGED <<modelTrained, modelParams, trainingStats,
                                 featureImportance>>
    /\ UNCHANGED <<selectedSport, trainingData, prediction, evResult, matchupInputs,
                   backtestResult, loadVersionRef, loadFrame>>

\* window.storage.get(model-<sport>) returns; the invocation ends
LoadModelLocal(k) ==
    /\ loads[k].pc = "modelLocal"
    /\ \E outcome \in RequestOutcomes :
         LET l == loads[k]
             stored == localModel[l.sport]
             taken == outcome = "ok" /\ stored # None /\ loadVersionRef = l.id
         IN  IF taken
             THEN /\ modelParams' = TakeModel(stored, l.sport).modelParams
                  /\ modelTrained' = TRUE
                  /\ trainingStats' = TakeModel(stored, l.sport).trainingStats
                  /\ featureImportance' = TakeModel(stored, l.sport).featureImportance
             ELSE UNCHANGED <<modelTrained, modelParams, trainingStats, featureImportance>>
    /\ loads' = [loads EXCEPT ![k].pc = "done", ![k].trainingLoadedFromServer = FALSE]
    /\ UNCHANGED <<selectedSport, trainingData, prediction, evResult, matchupInputs,
                   backtestResult, loadVersionRef, loadFrame>>

LoadNext ==
    \/ SelectSport
    \/ \E k \in DOMAIN loads :
         \/ LoadTrainingFetch(k) \/ LoadTrainingLocal(k)
         \/ LoadModelFetch(k) \/ LoadModelLocal(k)

SpecLoad == LoadInit /\ [][LoadNext]_vars

\* C6: once a newer loadSaved invocation has started, no step of an older
\* one changes trainingData, modelParams, modelTrained, trainingStats or
\* featureImportance.
C6_StaleLoadIsInert ==
    [][ \A k \in DOMAIN loads :
          ( /\ loadVersionRef' = loadVersionRef
            /\ loads[k].id < loadVersionRef
            /\ loads'[k] # loads[k] )
          => UNCHANGED <<trainingData, modelParams, modelTrained, trainingStats,
                         featureImportance>> ]_vars

----------------------------------------------------------------------------
(* Exact odds arithmetic.  A probability is a fraction n/d in lowest      *)
(* terms, so that a round trip, a sum or a ratio is compared without the  *)
(* quantisation of the thousandths used above.  The rounding of IEEE      *)
(* doubles is not modelled.                                               *)

RECURSIVE Gcd(_, _)
Gcd(a, b) == IF b = 0 THEN a ELSE Gcd(b, a % b)

Frac(n, d) == LET g == Gcd(Abs(n), d) IN [n |-> n \div g, d |-> d \div g]

FracAdd(a, b) ==
    LET g == Gcd(a.d, b.d)
    IN  Frac(a.n * (b.d \div g) + b.n * (a.d \div g), (a.d \div g) * b.d)

FracMul(a, b) ==
    LET g1 == Gcd(Abs(a.n), b.d)
        g2 == Gcd(Abs(b.n), a.d)
    IN  Frac((a.n \div g1) * (b.n \div g2), (a.d \div g2) * (b.d \div g1))

\* a / b for b > 0
FracDiv(a, b) == FracMul(a, [n |-> b.d, d |-> b.n])

FracLess(a, b) == a.n * b.d < b.n * a.d

moneylineToFairProbExact(ml) ==
    LET num == NumberOf(ml)
    IN  IF ~IsNum(num) THEN Frac(1, 2)
        ELSE IF num > 0 THEN Frac(100, num + 100)
        ELSE Frac(Abs(num), Abs(num) + 100)

\* probToMoneyline returning the magnitude of the line only
probToMoneylineUnsigned(prob) ==
    IF prob.n <= 0 \/ prob.n >= prob.d THEN 0
    ELSE IF 2 * prob.n >= prob.d THEN MathRound(100 * prob.n, prob.d - prob.n)
    ELSE MathRound(100 * (prob.d - prob.n), prob.n)

probToMoneylineExact(prob) ==
    IF prob.n <= 0 \/ prob.n >= prob.d THEN 0
    ELSE IF 2 * prob.n >= prob.d THEN MathRound(-(100 * prob.n), prob.d - prob.n)
    ELSE MathRound(100 * (prob.d - prob.n), prob.n)

\* total <= 1.0001
WithinEpsilon(total) == total.n - total.d <= total.d \div 10000

\* removeVig rescaling whatever the total
removeVigAlways(p1, p2) ==
    LET total == FracAdd(p1, p2)
    IN  IF total.n = 0 THEN [p1 |-> p1, p2 |-> p2]
        ELSE [p1 |-> FracDiv(p1, total), p2 |-> FracDiv(p2, total)]

removeVigExact(p1, p2) ==
    LET total == FracAdd(p1, p2)
    IN  IF WithinEpsilon(total) THEN [p1 |-> p1, p2 |-> p2]
        ELSE [p1 |-> FracDiv(p1, total), p2 |-> FracDiv(p2, total)]

----------------------------------------------------------------------------
(* SpecOdds: the odds helpers applied to the values the component hands   *)
(* them: the moneyline of a row or of a field (a number, '', null,        *)
(* undefined, NaN or text), a pair of implied probabilities, and a model  *)
(* probability with two quoted lines.                                     *)

MaxMoneyline == 200

Moneylines == (-MaxMoneyline..MaxMoneyline) \cup {Empty, Null, Undef, NaNv, Text}

\* the line of the other side
OtherLines == {-110, 130, 0, Empty}

\* model probabilities, in thousandths
ModelProbs == {380, 500, 620}

\* pairs of probabilities: summing to 1, inside the epsilon, above it,
\* below 1
VigPairs ==
    { [p1 |-> Frac(1, 2), p2 |-> Frac(1, 2)],
      [p1 |-> Frac(5000, 10000), p2 |-> Frac(5001, 10000)],
      [p1 |-> Frac(11, 21), p2 |-> Frac(11, 21)],
      [p1 |-> Frac(3, 10), p2 |-> Frac(2, 5)] }

OddsInit ==
    /\ CompInit
    /\ StoreInit
    /\ loadVersionRef = 1 /\ alerts = {}
    /\ loads = NoLoads /\ train = NoTrain /\ bt = NoBt /\ form = NoForm
    /\ upload = NoUpload
    /\ \E ml1 \in Moneylines, ml2 \in OtherLines, prob \in ModelProbs, pair \in VigPairs :
         calc = [pc |-> "start", ml1 |-> ml1, ml2 |-> ml2, prob |-> prob,
                 pair |-> pair, out |-> None]

oddsFrame == <<compVars, loadVersionRef, storeVars, alerts, loads, train, bt, form,
               upload>>

\* moneylineToFairProb of both lines
ApplyMoneylineToFairProb ==
    /\ calc.pc = "start"
    /\ calc' = [calc EXCEPT !.pc = "fair",
                            !.out = [p1 |-> moneylineToFairProbExact(calc.ml1),
                                     p2 |-> moneylineToFairProbExact(calc.ml2)]]
    /\ UNCHANGED oddsFrame

\* probToMoneyline(moneylineToFairProb(ml))
ApplyRoundTrip ==
    /\ calc.pc = "start"
    /\ calc' = [calc EXCEPT !.pc = "line",
                            !.out = [line |-> probToMoneylineExact(
                                                moneylineToFairProbExact(calc.ml1))]]
    /\ UNCHANGED oddsFrame

\* removeVig of the implied probabilities of the two lines, or of a pair
ApplyRemoveVig ==
    /\ calc.pc = "start"
    /\ \E from \in {"lines", "pair"} :
         LET in == IF from = "lines"
                   THEN [p1 |-> moneylineToFairProbExact(calc.ml1),
                         p2 |-> moneylineToFairProbExact(calc.ml2)]
                   ELSE calc.pair
             novig == removeVigExact(in.p1, in.p2)
         IN  calc' = [calc EXCEPT !.pc = "novig",
                                  !.out = [in |-> in, p1 |-> novig.p1, p2 |-> novig.p2]]
    /\ UNCHANGED oddsFrame

\* removeVig of the pair removeVig returned
ApplyRemoveVigAgain ==
    /\ calc.pc = "novig"
    /\ LET again == removeVigExact(calc.out.p1, calc.out.p2)
       IN  calc' = [calc EXCEPT !.pc = "again",
                                !.out = [in |-> calc.out.in,
                                         first |-> [p1 |-> calc.out.p1, p2 |-> calc.out.p2],
                                         p1 |-> again.p1, p2 |-> again.p2]]
    /\ UNCHANGED oddsFrame

\* calculateEV with two quoted lines
ApplyCalculateEV ==
    /\ calc.pc = "start"
    /\ IsNum(calc.ml1) /\ IsNum(calc.ml2)
    /\ Abs(calc.ml1) >= 100 /\ Abs(calc.ml2) >= 100
    /\ calc' = [calc EXCEPT !.pc = "ev",
                            !.out = calculateEV(calc.prob, calc.ml1, calc.ml2)]
    /\ UNCHANGED oddsFrame

OddsNext ==
    \/ ApplyMoneylineToFairProb
    \/ ApplyRoundTrip
    \/ ApplyRemoveVig
    \/ ApplyRemoveVigAgain
    \/ ApplyCalculateEV

SpecOdds == OddsInit /\ [][OddsNext]_vars

\* a quoted integer moneyline
QuotedLine(ml) == IsNum(ml) /\ Abs(ml) >= 100

SameSign(a, b) == (a < 0 /\ b < 0) \/ (a > 0 /\ b > 0)

\* Math.round moves a value by less than one
RoundingTolerance == 1

\* C12 as stated: for every integer moneyline ml with |ml| >= 100,
\* probToMoneyline(moneylineToFairProb(ml)) has the sign of ml and differs
\* from ml by at most the rounding error.
C12_RoundTripKeepsSign ==
    (calc.pc = "line" /\ QuotedLine(calc.ml1))
    => /\ SameSign(calc.out.line, calc.ml1)
       /\ Abs(calc.out.line - calc.ml1) <= RoundingTolerance

\* C12: for every integer moneyline ml with |ml| >= 100 other than +100,
\* probToMoneyline(moneylineToFairProb(ml)) has the sign of ml and differs
\* from ml by at most the rounding error; for ml = +100 it is -100, the
\* other way of writing even money.
C12_RoundTrip ==
    (calc.pc = "line" /\ QuotedLine(calc.ml1))
    => IF calc.ml1 = 100 THEN calc.out.line = -100
       ELSE /\ SameSign(calc.out.line, calc.ml1)
            /\ Abs(calc.out.line - calc.ml1) <= RoundingTolerance

\* an underdog line that went through both conversions
C12_Witness ==
    /\ calc.pc = "line"
    /\ calc.ml1 = 150
    /\ calc.out.line = 150

\* C13: moneylineToFairProb returns 100/(ml+100) for ml > 0,
\* |ml|/(|ml|+100) for ml < 0 and 0.5 for a zero or non-finite input,
\* an empty or missing field included; the result lies strictly between
\* 0 and 1.
C13_FairProb ==
    calc.pc = "fair"
    => LET ml == calc.ml1
           p == calc.out.p1
       IN  /\ IF IsNum(ml) /\ ml > 0 THEN p = Frac(100, ml + 100)
              ELSE IF IsNum(ml) /\ ml < 0 THEN p = Frac(-ml, 100 - ml)
              ELSE p = Frac(1, 2)
           /\ 0 < p.n /\ p.n < p.d

\* the sum of a pair
PairTotal(pair) == FracAdd(pair.p1, pair.p2)

C15_BestSide ==
    calc.pc = "ev"
    => calc.out.side =
         IF EvGreater(PScale - calc.prob, calc.ml2, calc.prob, calc.ml1) THEN 2 ELSE 1

----------------------------------------------------------------------------
(* The persistence server: one JSON file per sport and kind under the     *)
(* data directory.  A store is a function from sports to the parsed       *)
(* content of the file, None when the file does not exist.  Reading and   *)
(* unlinking an existing file are taken to succeed; a write may fail and  *)
(* then leaves the file as it was.                                        *)

readJson(store, sport) == store[sport]

\* writeJson that keeps a file that already exists
writeJsonOnce(store, sport, data) ==
    IF store[sport] = None THEN [store EXCEPT ![sport] = data] ELSE store

writeJson(store, sport, data) == [store EXCEPT ![sport] = data]

\* deleteFile removing the files of every sport
deleteFileAll(store, sport) ==
    [store |-> [s \in DOMAIN store |-> None], deleted |-> store[sport] # None]

deleteFile(store, sport) ==
    [store |-> [store EXCEPT ![sport] = None], deleted |-> store[sport] # None]

----------------------------------------------------------------------------
(* SpecServer: requests to the six endpoints in any order, for any sport  *)
(* or without one, with bodies the endpoints accept and bodies they       *)
(* reject.  calc.saved remembers, from the requests and their answers     *)
(* only, what the last accepted save of each key carried.                 *)

Kinds == {"training", "model"}

\* a request without a sport
NoSport == ""

\* req.query.sport / req.body.sport
RequestSports == Sports \cup {NoSport}

\* req.body.rows: None when it is not an array
RequestRows == {None, [rows |-> <<>>], [rows |-> <<Labelled(1)>>]}

\* req.body.modelParams and req.body.trainingStats: None when absent
RequestModels == {None, TrainedA, TennisModel}
RequestStats == {None, [accuracy |-> 650, samplesUsed |-> 20]}

ErrorBody == [error |-> TRUE]

ServerInit ==
    /\ CompInit
    /\ StoreInit
    /\ loadVersionRef = 1 /\ alerts = {}
    /\ loads = NoLoads /\ train = NoTrain /\ bt = NoBt /\ form = NoForm
    /\ upload = NoUpload
    /\ calc = [pc |-> "server",
               saved |-> [k \in Kinds |-> NoStore],
               replaced |-> {},
               last |-> None]

serverFrame == <<compVars, loadVersionRef, localTraining, localModel, alerts, loads,
                 train, bt, form, upload>>

Response(op, kind, sport, status, body) ==
    [op |-> op, kind |-> kind, sport |-> sport, status |-> status, body |-> body]

\* the bookkeeping after an answered save
AfterSave(kind, sport, status, value) ==
    IF status = 200
    THEN [calc EXCEPT
            !.saved[kind][sport] = value,
            !.replaced = IF calc.saved[kind][sport] \notin {None, value}
                         THEN @ \cup {<<kind, sport>>} ELSE @,
            !.last = Response("POST", kind, sport, status, [ok |-> TRUE])]
    ELSE [calc EXCEPT !.last = Response("POST", kind, sport, status, ErrorBody)]

\* the bookkeeping after an answered delete
AfterDelete(kind, sport, status, deleted) ==
    IF status = 200
    THEN [calc EXCEPT
            !.saved[kind][sport] = None,
            !.last = Response("DELETE", kind, sport, status,
                              [ok |-> TRUE, deleted |-> deleted])]
    ELSE [calc EXCEPT !.last = Response("DELETE", kind, sport, status, ErrorBody)]

\* app.post('/api/training-data')
PostTrainingData ==
    /\ calc.pc = "server"
    /\ \E sport \in RequestSports, rows \in RequestRows, success \in BOOLEAN :
         IF sport = NoSport \/ rows = None
         THEN /\ calc' = AfterSave("training", sport, 400, None)
              /\ UNCHANGED serverTraining
         ELSE IF success
         THEN /\ serverTraining' = writeJson(serverTraining, sport, rows)
              /\ calc' = AfterSave("training", sport, 200, rows)
         ELSE /\ calc' = AfterSave("training", sport, 500, None)
              /\ UNCHANGED serverTraining
    /\ UNCHANGED <<serverModel, serverFrame>>

\* app.get('/api/training-data')
GetTrainingData ==
    /\ calc.pc = "server"
    /\ \E sport \in RequestSports :
         calc' = [calc EXCEPT !.last =
            IF sport = NoSport THEN Response("GET", "training", sport, 400, ErrorBody)
            ELSE LET data == readJson(serverTraining, sport)
                 IN  IF data = None
                     THEN Response("GET", "training", sport, 404, ErrorBody)
                     ELSE Response("GET", "training", sport, 200, data)]
    /\ UNCHANGED <<serverTraining, serverModel, serverFrame>>

\* app.delete('/api/training-data')
DeleteTrainingData ==
    /\ calc.pc = "server"
    /\ \E sport \in RequestSports :
         IF sport = NoSport
         THEN /\ calc' = AfterDelete("training", sport, 400, FALSE)
              /\ UNCHANGED serverTraining
         ELSE LET done == deleteFile(serverTraining, sport)
              IN  /\ serverTraining' = done.store
                  /\ calc' = AfterDelete("training", sport, 200, done.deleted)
    /\ UNCHANGED <<serverModel, serverFrame>>

\* app.post('/api/model')
PostModel ==
    /\ calc.pc = "server"
    /\ \E sport \in RequestSports, mp \in RequestModels, stats \in RequestStats,
          success \in BOOLEAN :
         LET payload == StoredModel(mp, stats)
         IN  IF sport = NoSport \/ mp = None
             THEN /\ calc' = AfterSave("model", sport, 400, None)
                  /\ UNCHANGED serverModel
             ELSE IF success
             THEN /\ serverModel' = writeJson(serverModel, sport, payload)
                  /\ calc' = AfterSave("model", sport, 200, payload)
             ELSE /\ calc' = AfterSave("model", sport, 500, None)
                  /\ UNCHANGED serverModel
    /\ UNCHANGED <<serverTraining, serverFrame>>

\* app.get('/api/model')
GetModel ==
    /\ calc.pc = "server"
    /\ \E sport \in RequestSports :
         calc' = [calc EXCEPT !.last =
            IF sport = NoSport THEN Response("GET", "model", sport, 400, ErrorBody)
            ELSE LET data == readJson(serverModel, sport)
                 IN  IF data = None
                     THEN Response("GET", "model", sport, 404, ErrorBody)
                     ELSE Response("GET", "model", sport, 200, data)]
    /\ UNCHANGED <<serverTraining, serverModel, serverFrame>>

\* app.delete('/api/model')
DeleteModel ==
    /\ calc.pc = "server"
    /\ \E sport \in RequestSports :
         IF sport = NoSport
         THEN /\ calc' = AfterDelete("model", sport, 400, FALSE)
              /\ UNCHANGED serverModel
         ELSE LET done == deleteFile(serverModel, sport)
              IN  /\ serverModel' = done.store
                  /\ calc' = AfterDelete("model", sport, 200, done.deleted)
    /\ UNCHANGED <<serverTraining, serverFrame>>

ServerNext ==
    \/ PostTrainingData
    \/ GetTrainingData
    \/ DeleteTrainingData
    \/ PostModel
    \/ GetModel
    \/ DeleteModel

SpecServer == ServerInit /\ [][ServerNext]_vars

\* the store of a kind
ServerStore(kind) == IF kind = "training" THEN serverTraining ELSE serverModel

AnsweredFor(op) ==
    /\ calc.pc = "server"
    /\ calc.last # None
    /\ calc.last.op = op
    /\ calc.last.sport \in Sports

----------------------------------------------------------------------------
(* SpecClear: clearSportData, one invocation, among sport changes, page   *)
(* reloads and the loadSaved invocations they start.  The invocation      *)
(* keeps the sport it was started with; each of its four deletes may      *)
(* fail.  No upload or training is running.                               *)

\* window.storage.delete leaving the key in place
storageDeleteKeeps(store, sport) == store

\* window.storage.delete(key)
storageDelete(store, sport) == [store EXCEPT ![sport] = None]

NoClear == [pc |-> "idle", sport |-> "nfl", reachable |-> TRUE, held |-> FALSE,
            doneAt |-> 0]

ClearInit ==
    /\ CompInit
    /\ \E profile \in [Sports -> StoreProfiles] :
         /\ serverTraining = [s \in Sports |->
                IF OnServer(profile[s]) THEN SavedRows(s, "server") ELSE None]
         /\ localTraining = [s \in Sports |->
                IF OnLocal(profile[s]) THEN SavedRows(s, "local") ELSE None]
         /\ serverModel = [s \in Sports |->
                IF OnServer(profile[s]) THEN SavedModel(s, "server") ELSE None]
         /\ localModel = [s \in Sports |->
                IF OnLocal(profile[s]) THEN SavedModel(s, "local") ELSE None]
    /\ loadVersionRef = 1
    /\ loads = <<LoadStarted(1, "nfl")>>
    /\ alerts = {}
    /\ train = NoTrain /\ bt = NoBt /\ form = NoForm /\ upload = NoUpload
    /\ calc = NoClear

clearFrame == <<isTraining, isBacktesting, alerts, loads, train, bt, form, upload,
                loadVersionRef>>

\* something is stored for the sport
Holds(sport) ==
    \/ serverTraining[sport] # None \/ serverModel[sport] # None
    \/ localTraining[sport] # None \/ localModel[sport] # None

\* the click on Clear All: the confirm dialog, and when it is confirmed
\* the state resets up to the first await
ClearConfirm ==
    /\ calc.pc = "idle"
    /\ \E confirmed \in BOOLEAN :
         IF ~confirmed THEN UNCHANGED <<calc, compVars>>
         ELSE /\ calc' = [calc EXCEPT !.pc = "localTraining", !.sport = selectedSport,
                                      !.held = Holds(selectedSport)]
              /\ trainingData' = <<>>
              /\ modelParams' = None /\ modelTrained' = FALSE
              /\ trainingStats' = None /\ featureImportance' = None
              /\ prediction' = None /\ evResult' = None
              /\ matchupInputs' = NoInputs /\ actualLines' = NoLines
              /\ backtestResult' = None
              /\ UNCHANGED <<selectedSport, isTraining, isBacktesting>>
    /\ UNCHANGED <<storeVars, alerts, loads, train, bt, form, upload, loadVersionRef>>

\* window.storage.delete(training-<sport>) returns or throws; a throw
\* skips the delete of the model
ClearLocalTraining ==
    /\ calc.pc = "localTraining"
    /\ \E outcome \in RequestOutcomes :
         IF outcome = "ok"
         THEN /\ localTraining' = storageDelete(localTraining, calc.sport)
              /\ calc' = [calc EXCEPT !.pc = "localModel"]
         ELSE /\ calc' = [calc EXCEPT !.pc = "serverTraining", !.reachable = FALSE]
              /\ UNCHANGED localTraining
    /\ UNCHANGED <<compVars, serverTraining, serverModel, localModel, clearFrame>>

\* window.storage.delete(model-<sport>) returns or throws
ClearLocalModel ==
    /\ calc.pc = "localModel"
    /\ \E outcome \in RequestOutcomes :
         IF outcome = "ok"
         THEN /\ localModel' = storageDelete(localModel, calc.sport)
              /\ calc' = [calc EXCEPT !.pc = "serverTraining"]
         ELSE /\ calc' = [calc EXCEPT !.pc = "serverTraining", !.reachable = FALSE]
              /\ UNCHANGED localModel
    /\ UNCHANGED <<compVars, serverTraining, serverModel, localTraining, clearFrame>>

\* DELETE /api/training-data is answered, or the request fails
ClearServerTraining ==
    /\ calc.pc = "serverTraining"
    /\ \E outcome \in RequestOutcomes :
         IF outcome = "ok"
         THEN /\ serverTraining' = deleteFile(serverTraining, calc.sport).store
              /\ calc' = [calc EXCEPT !.pc = "serverModel"]
         ELSE /\ calc' = [calc EXCEPT !.pc = "serverModel", !.reachable = FALSE]
              /\ UNCHANGED serverTraining
    /\ UNCHANGED <<compVars, serverModel, localTraining, localModel, clearFrame>>

\* DELETE /api/model is answered, or the request fails; the invocation
\* ends
ClearServerModel ==
    /\ calc.pc = "serverModel"
    /\ \E outcome \in RequestOutcomes :
         IF outcome = "ok"
         THEN /\ serverModel' = deleteFile(serverModel, calc.sport).store
              /\ calc' = [calc EXCEPT !.pc = "done", !.doneAt = loadVersionRef]
         ELSE /\ calc' = [calc EXCEPT !.pc = "done", !.doneAt = loadVersionRef,
                                      !.reachable = FALSE]
              /\ UNCHANGED serverModel
    /\ UNCHANGED <<compVars, serverTraining, localTraining, localModel, clearFrame>>

\* the page is loaded again: a new component with its initial state, whose
\* mount effect starts loadSaved
Reload ==
    /\ calc.pc \in {"idle", "done"}
    /\ selectedSport' = "nfl"
    /\ trainingData' = <<>>
    /\ modelTrained' = FALSE /\ modelParams' = None
    /\ trainingStats' = None /\ featureImportance' = None
    /\ prediction' = None /\ evResult' = None
    /\ matchupInputs' = NoInputs /\ actualLines' = NoLines
    /\ isTraining' = FALSE /\ isBacktesting' = FALSE
    /\ backtestResult' = None
    /\ loadVersionRef' = 1
    /\ loads' = <<LoadStarted(1, "nfl")>>
    /\ calc' = [calc EXCEPT !.doneAt = 0]
    /\ UNCHANGED <<storeVars, alerts, train, bt, form, upload>>

ClearNext ==
    \/ ClearConfirm
    \/ ClearLocalTraining
    \/ ClearLocalModel
    \/ ClearServerTraining
    \/ ClearServerModel
    \/ Reload
    \/ SelectSport
    \/ \E k \in DOMAIN loads :
         \/ LoadTrainingFetch(k) \/ LoadTrainingLocal(k)
         \/ LoadModelFetch(k) \/ LoadModelLocal(k)

SpecClear == ClearInit /\ [][ClearNext]_vars

\* clearSportData has completed and each of its deletes went through
Cleared(c) == c.pc = "done" /\ c.reachable

\* a loadSaved invocation started after clearSportData completed, for the
\* cleared sport
Follows(l) == l.id > calc.doneAt /\ l.sport = calc.sport

----------------------------------------------------------------------------
(* Binary floating point.  The statistics of trainLogisticRegression are  *)
(* computed in doubles; every sum, quotient, product and root is rounded  *)
(* to the nearest representable value, ties to even.  The model keeps     *)
(* MantissaBits bits of precision where a double keeps 53 and leaves the  *)
(* exponent unbounded.  A value is m * 2^e with 2^(p-1) <= |m| < 2^p, or  *)
(* zero.                                                                  *)

MantissaBits == 8

FloatZero == [m |-> 0, e |-> 0]

\* N / D * 2^e for N, D > 0, rounded to MantissaBits bits
RECURSIVE Normalized(_, _, _)
Normalized(N, D, e) ==
    IF N >= 2^MantissaBits * D THEN Normalized(N, 2 * D, e + 1)
    ELSE IF N < 2^(MantissaBits - 1) * D THEN Normalized(2 * N, D, e - 1)
    ELSE LET q == N \div D
             r == N % D
             up == 2 * r > D \/ (2 * r = D /\ q % 2 = 1)
             m == IF up THEN q + 1 ELSE q
         IN  IF m = 2^MantissaBits THEN [m |-> 2^(MantissaBits - 1), e |-> e + 1]
             ELSE [m |-> m, e |-> e]

\* the float nearest to N / D * 2^e, N of either sign
Rounded(N, D, e) ==
    IF N = 0 THEN FloatZero
    ELSE LET f == Normalized(Abs(N), D, e)
         IN  [m |-> IF N < 0 THEN -f.m ELSE f.m, e |-> f.e]

FloatOne == Rounded(1, 1, 0)

FloatAdd(a, b) ==
    IF a.m = 0 THEN b
    ELSE IF b.m = 0 THEN a
    ELSE IF a.e - b.e > MantissaBits + 2 THEN a
    ELSE IF b.e - a.e > MantissaBits + 2 THEN b
    ELSE LET lo == Min(a.e, b.e)
         IN  Rounded(a.m * 2^(a.e - lo) + b.m * 2^(b.e - lo), 1, lo)

FloatSub(a, b) == FloatAdd(a, [m |-> -b.m, e |-> b.e])

FloatMul(a, b) == Rounded(a.m * b.m, 1, a.e + b.e)

\* a / b for b # 0
FloatDiv(a, b) ==
    Rounded(IF b.m < 0 THEN -a.m ELSE a.m, Abs(b.m), a.e - b.e)

\* a / n for an integer n > 0
FloatDivInt(a, n) == Rounded(a.m, n, a.e)

\* N * 4^t inside [2^(2p-2), 2^(2p)), with the t used
RECURSIVE RootScale(_, _)
RootScale(N, t) ==
    IF N < 2^(2 * MantissaBits - 2) THEN RootScale(4 * N, t + 1) ELSE [N |-> N, t |-> t]

\* Math.sqrt of a >= 0: the correctly rounded root
FloatSqrt(a) ==
    IF a.m = 0 THEN FloatZero
    ELSE LET odd == a.e % 2 = 1
             e0 == IF odd THEN a.e - 1 ELSE a.e
             sc == RootScale(IF odd THEN 2 * a.m ELSE a.m, 0)
             r == CHOOSE k \in 2^(MantissaBits - 1)..(2^MantissaBits - 1) :
                     k * k <= sc.N /\ sc.N < (k + 1) * (k + 1)
             m == IF sc.N > r * r + r THEN r + 1 ELSE r
             e == e0 \div 2 - sc.t
         IN  IF m = 2^MantissaBits THEN [m |-> 2^(MantissaBits - 1), e |-> e + 1]
             ELSE [m |-> m, e |-> e]

\* let sum = 0; for (...) sum += v
RECURSIVE FloatSum(_, _, _)
FloatSum(col, i, sum) ==
    IF i > Len(col) THEN sum ELSE FloatSum(col, i + 1, FloatAdd(sum, col[i]))

\* means[j] of one column
FloatMean(col) == FloatDivInt(FloatSum(col, 1, FloatZero), Len(col))

\* stds[j] of one column: s || 1
FloatStd(col) ==
    LET mean == FloatMean(col)
        squares == [i \in 1..Len(col) |->
                       LET diff == FloatSub(col[i], mean) IN FloatMul(diff, diff)]
        variance == FloatDivInt(FloatSum(squares, 1, FloatZero), Len(col))
        s == FloatSqrt(variance)
    IN  IF s.m = 0 THEN FloatOne ELSE s

\* (v - means[j]) / stds[j]; a division by zero gives no finite value
FloatNorm(v, mean, std) ==
    IF std.m = 0 THEN None ELSE FloatDiv(FloatSub(v, mean), std)

----------------------------------------------------------------------------
(* SpecStd: the column statistics of trainLogisticRegression over one     *)
(* feature column of the usable rows, and the normalization of a further  *)
(* value with them, as calculatePrediction and runBacktest do.            *)

MaxStdRows == 12

\* feature values: the form rates k / m of up to five games, and the fair
\* probabilities of some pairs of lines
StdRates == {Rounded(k, m, 0) : k \in 0..5, m \in 1..5} \ {Rounded(k, 1, 0) : k \in 2..5}
StdValues == {f \in StdRates : f.m = 0 \/ f.e < 0 \/ f = FloatOne}
                \cup {Rounded(9, 14, 0), Rounded(5, 14, 0), Rounded(69, 119, 0)}

\* a column of n values, all v except the last
StdColumn(v, w, n) == [i \in 1..n |-> IF i < n THEN v ELSE w]

StdInit ==
    /\ CompInit
    /\ StoreInit
    /\ loadVersionRef = 1 /\ alerts = {}
    /\ loads = NoLoads /\ train = NoTrain /\ bt = NoBt /\ form = NoForm
    /\ upload = NoUpload
    /\ \E v \in StdValues, w \in StdValues, n \in 1..MaxStdRows :
         calc = [pc |-> "start", col |-> StdColumn(v, w, n), out |-> None]

stdFrame == <<compVars, loadVersionRef, storeVars, alerts, loads, train, bt, form,
              upload>>

\* means, stds and Xnorm of the column
ApplyColumnStats ==
    /\ calc.pc = "start"
    /\ LET mean == FloatMean(calc.col)
           std == FloatStd(calc.col)
       IN  calc' = [calc EXCEPT !.pc = "trained",
                                !.out = [mean |-> mean, std |-> std,
                                         Xnorm |-> [i \in 1..Len(calc.col) |->
                                                      FloatNorm(calc.col[i], mean, std)]]]
    /\ UNCHANGED stdFrame

\* xNorm of a value of the same feature with the trained means and stds
ApplyNormalize ==
    /\ calc.pc = "trained"
    /\ \E x \in StdValues :
         calc' = [calc EXCEPT !.pc = "normalized",
                              !.out = [mean |-> calc.out.mean, std |-> calc.out.std,
                                       Xnorm |-> calc.out.Xnorm,
                                       xNorm |-> FloatNorm(x, calc.out.mean,
                                                           calc.out.std)]]
    /\ UNCHANGED stdFrame

StdNext == ApplyColumnStats \/ ApplyNormalize

SpecStd == StdInit /\ [][StdNext]_vars

\* every value of the column is the same
IsConstant(col) == \A i \in 1..Len(col) : col[i] = col[1]

\* no normalization with the trained statistics divided by zero
StdsNonZero ==
    calc.pc \in {"trained", "normalized"}
    => /\ calc.out.std.m # 0
       /\ \A i \in 1..Len(calc.out.Xnorm) : calc.out.Xnorm[i] # None
       /\ calc.pc = "normalized" => calc.out.xNorm # None

\* C22: in every model returned by trainLogisticRegression each stds[j] is
\* non-zero: a feature column whose values are all equal gets std 1 and
\* normalized values all 0, so normalizing with a trained model's means and
\* stds in training, prediction and backtest never divides by zero.
C22_StdNeverZero ==
    /\ StdsNonZero
    /\ (calc.pc \in {"trained", "normalized"} /\ IsConstant(calc.col))
       => /\ calc.out.std = FloatOne
          /\ \A i \in 1..Len(calc.out.Xnorm) : calc.out.Xnorm[i] = FloatZero

----------------------------------------------------------------------------
(* SpecSession: one user at the component, one handler at a time.  The    *)
(* stores may hold an older data set and model for nfl; the user uploads  *)
(* a file, trains, clears, selects another sport or loads the page again, *)
(* and every request and every write may fail.                            *)

MaxSessionLoads == 3

SessionFile == TrainFile(MinTrainRows, MinTrainRows - 1, "scores")

SessionProfiles == {profile \in [Sports -> StoreProfiles] : profile["tennis"] = "none"}

SessionInit ==
    /\ CompInit
    /\ \E profile \in SessionProfiles :
         /\ serverTraining = [s \in Sports |->
                IF OnServer(profile[s]) THEN SavedRows(s, "server") ELSE None]
         /\ localTraining = [s \in Sports |->
                IF OnLocal(profile[s]) THEN SavedRows(s, "local") ELSE None]
         /\ serverModel = [s \in Sports |->
                IF OnServer(profile[s]) THEN SavedModel(s, "server") ELSE None]
         /\ localModel = [s \in Sports |->
                IF OnLocal(profile[s]) THEN SavedModel(s, "local") ELSE None]
    /\ loadVersionRef = 1
    /\ loads = <<LoadStarted(1, "nfl")>>
    /\ alerts = {}
    /\ train = NoTrain /\ bt = NoBt /\ form = NoForm
    /\ upload = [pc |-> "idle", newRows |-> <<>>, file |-> SessionFile]
    /\ calc = NoClear

\* no handler is between two of its awaits
Quiet ==
    /\ upload.pc = "idle" /\ train.pc = "idle" /\ bt.pc = "idle"
    /\ calc.pc \in {"idle", "done"}
    /\ \A k \in DOMAIN loads : loads[k].pc = "done"

\* setSelectedSport(key) once the previous loadSaved has ended, and the
\* effect it triggers: loadSaved up to its first await
SessionSelectSport ==
    /\ Quiet
    /\ loadVersionRef < MaxSessionLoads
    /\ \E s \in Sports \ {selectedSport} :
         /\ selectedSport' = s
         /\ loads' = <<LoadStarted(loadVersionRef + 1, s)>>
    /\ loadVersionRef' = loadVersionRef + 1
    /\ prediction' = None /\ evResult' = None /\ matchupInputs' = NoInputs
    /\ trainingData' = <<>>
    /\ backtestResult' = None
    /\ UNCHANGED <<modelTrained, modelParams, trainingStats, featureImportance, loadFrame>>

SessionReload == Quiet /\ Reload

\* the file is uploaded once, while nfl is selected
SessionUpload == Quiet /\ selectedSport = "nfl" /\ upload.newRows = <<>> /\ UploadRead

\* Train Model is clicked while no model is in state
SessionTrainRefused == Quiet /\ ~modelTrained /\ TrainRefused
SessionTrainRun == Quiet /\ ~modelTrained /\ TrainRun

SessionClear == Quiet /\ ClearConfirm

SessionNext ==
    \/ SessionSelectSport
    \/ SessionReload
    \/ \E k \in DOMAIN loads :
         \/ LoadTrainingFetch(k) \/ LoadTrainingLocal(k)
         \/ LoadModelFetch(k) \/ LoadModelLocal(k)
    \/ SessionUpload \/ UploadLocalSave \/ UploadServerSave
    \/ SessionTrainRefused \/ SessionTrainRun \/ TrainLocalSave \/ TrainServerSave
    \/ SessionClear
    \/ ClearLocalTraining \/ ClearLocalModel \/ ClearServerTraining \/ ClearServerModel

SpecSession == SessionInit /\ [][SessionNext]_vars

\* C29: after every completed operation of the prediction component
\* (loadSaved, handleDataUpload, trainModel, clearSportData,
\* calculatePrediction, runBacktest), modelTrained is true if and only if
\* modelParams is non-null.  (Stated of every state, between the awaits of
\* an operation as well.)
C29_TrainedIffParams == modelTrained <=> modelParams # None

\* a trained model is in state after a completed trainModel and a later
\* loadSaved that took a stored model over
C29_Witness ==
    /\ Quiet
    /\ "PRO MODEL TRAINED" \in alerts
    /\ loadVersionRef > 1
    /\ modelTrained /\ modelParams # None

\* the rows the upload of the session put in trainingData for a sport
UploadedRows(s) ==
    IF sports[s].isTeamSeasonSport THEN addLast5WinColumns(upload.newRows)
    ELSE upload.newRows

\* handleDataUpload has ended and a store holds its rows for the sport
UploadStored(s) ==
    /\ upload.pc = "idle" /\ upload.newRows # <<>>
    /\ \/ serverTraining[s] = StoredRows(UploadedRows(s))
       \/ localTraining[s] = StoredRows(UploadedRows(s))

\* a step in which loadSaved invocation k sets trainingData
LoadSetsRows(k) ==
    /\ loads[k].pc \in {"trainingFetch", "trainingLocal"}
    /\ k \in DOMAIN loads' /\ loads'[k].pc # loads[k].pc
    /\ trainingData' # trainingData

\* C27: after handleDataUpload for sport S has stored its rows in at least
\* one store (local storage or server), the next loadSaved for S sets
\* trainingData to exactly those uploaded rows, also when the other store's
\* write failed and still holds an older dataset for S.
C27_LoadReturnsUpload ==
    [][ \A k \in DOMAIN loads :
          (UploadStored(loads[k].sport) /\ LoadSetsRows(k))
          => trainingData' = StoredRows(UploadedRows(loads[k].sport)).rows ]_vars

\* the same when the POST of the upload was stored by the server
LoadReturnsUploadFromServer ==
    [][ \A k \in DOMAIN loads :
          ( /\ UploadStored(loads[k].sport) /\ LoadSetsRows(k)
            /\ serverTraining[loads[k].sport]
                 = StoredRows(UploadedRows(loads[k].sport)) )
          => trainingData' = StoredRows(UploadedRows(loads[k].sport)).rows ]_vars

\* the uploaded rows of the selected sport are in trainingData
UploadInMemory ==
    /\ upload.newRows # <<>>
    /\ trainingData \in {UploadedRows(selectedSport),
                         StoredRows(UploadedRows(selectedSport)).rows}

\* C28: after a dataset upload for sport S has reset the in-memory model,
\* no model is available for prediction or backtest on S until trainModel
\* runs again, including after switching to another sport and back or
\* reloading: a model trained on a previous dataset is never restored next
\* to the newly uploaded rows.
C28_NoStaleModel ==
    (UploadInMemory /\ modelTrained)
    => modelParams = TrainedState(trainingData, sports[selectedSport].features).modelParams

====
